---------------------------- MODULE Spec2Model ----------------------------
(***************************************************************************)
(* Model of the schema-diff and migration-ordering engine of pg-compose:   *)
(* the dependency sorter (pg_compose_core/lib/sorter.py) and the diff      *)
(* engine (pg_compose_core/lib/diff.py) over the object model of           *)
(* pg_compose_core/lib/ast_objects.py, ast/table.py and ast/function.py.   *)
(*                                                                         *)
(* Strings are the program's strings; f-strings are modelled with \o.      *)
(* Python's None is the value None below; a list is a sequence; a dict is  *)
(* a function together with the sequence of its keys in insertion order.   *)
(***************************************************************************)
EXTENDS Integers, Sequences, FiniteSets, TLC

VARIABLES
    pc,               \* position of the running call
    queries,          \* sort_queries: the input list
    use_object_names, \* sort_queries: flag
    grant_handling,   \* sort_queries: flag
    node_keys,        \* keys of name_to_query / hash_to_query in insertion order
    node_query,       \* name_to_query / hash_to_query
    graph,            \* graph: node -> set of dependent nodes
    in_degree,        \* in_degree: node -> count
    queue,            \* the deque of Kahn's algorithm
    sorted_keys,      \* sorted_names / sorted_hashes
    tail_objects,     \* by-hash mode: grant_index_objects + objects_without_hash
    base,             \* diff_schemas: the base collection
    updated,          \* diff_schemas: the updated collection
    diff_keys,        \* diff_schemas: the keys of sorted(all_keys) still to visit
    migration_commands, \* diff_schemas: the commands emitted so far
    command_keys,     \* history: for each emitted command, the key whose turn emitted it
    result,           \* the returned list
    raised            \* the exception that ended the call, or None

sort_vars == <<queries, use_object_names, grant_handling, node_keys, node_query,
               graph, in_degree, queue, sorted_keys, tail_objects>>

diff_vars == <<base, updated, diff_keys, migration_commands, command_keys>>

vars == <<pc, sort_vars, diff_vars, result, raised>>

None == "<None>"

(***************************************************************************)
(* Bounds of the model.                                                    *)
(***************************************************************************)
MaxLen == 3
MaxDeps == 1

(***************************************************************************)
(* Helpers on sequences.                                                   *)
(***************************************************************************)
Range(s) == {s[i] : i \in 1..Len(s)}

SeqsUpTo(S, n) == UNION {[1..k -> S] : k \in 0..n}

\* All orders in which the elements of a finite set can be iterated.
Orders(S) == {s \in [1..Cardinality(S) -> S] : \A i, j \in 1..Cardinality(S) : s[i] = s[j] => i = j}

\* A python dict's key order: every key at the place of its first insertion.
RECURSIVE InsertionOrder(_)
InsertionOrder(s) ==
    IF s = <<>> THEN <<>>
    ELSE LET r == InsertionOrder(SubSeq(s, 1, Len(s) - 1))
         IN  IF s[Len(s)] \in Range(r) THEN r ELSE Append(r, s[Len(s)])

\* The indices of a list of length n that pass a test, ascending
\* ("for i, x in enumerate(s): if test(x)").
IndicesWhere(n, P(_)) == SelectSeq([i \in 1..n |-> i], P)

Truthy(s) == s # None /\ s # ""

(***************************************************************************)
(* ASTObject (ast_objects.py).                                             *)
(***************************************************************************)
Sha256(text) == "sha256(" \o text \o ")"

\* ASTObject._normalize_sql on the texts of this model: the synthesized
\* commands and the sample commands carry no comments and no redundant
\* whitespace, and upper-casing is one-to-one on them.
_normalize_sql(sql) == "upper(" \o sql \o ")"

_generate_hash(command) == Sha256(_normalize_sql(command))

\* The dataclass constructor with __post_init__: a missing query_hash is generated.
ASTObject(command, object_name, query_type, dependencies, query_hash, schema) ==
    [kind |-> "ASTObject",
     command |-> command,
     object_name |-> object_name,
     query_type |-> query_type,
     dependencies |-> dependencies,
     query_hash |-> IF query_hash = None THEN _generate_hash(command) ELSE query_hash,
     schema |-> schema,
     columns |-> <<>>,
     parameters |-> <<>>,
     return_type |-> None,
     language |-> None,
     signature_hash |-> None]

qualified_name(obj) ==
    IF Truthy(obj.schema) /\ Truthy(obj.object_name)
    THEN obj.schema \o "." \o obj.object_name
    ELSE IF Truthy(obj.object_name) THEN obj.object_name ELSE ""

RECURSIVE JoinWith(_, _)
\* sep.join(parts)
JoinWith(parts, sep) ==
    IF parts = <<>> THEN ""
    ELSE IF Len(parts) = 1 THEN parts[1]
    ELSE parts[1] \o sep \o JoinWith(Tail(parts), sep)

(***************************************************************************)
(* TableASTObject (ast/table.py) and FunctionASTObject (ast/function.py).  *)
(***************************************************************************)
TableColumn(name, data_type, is_nullable, default) ==
    [name |-> name, data_type |-> data_type, is_nullable |-> is_nullable, default |-> default]

\* __post_init__ sets query_type = BASE_TABLE
TableASTObject(command, object_name, dependencies, query_hash, schema, columns) ==
    [ASTObject(command, object_name, "base_table", dependencies, query_hash, schema)
        EXCEPT !.kind = "TableASTObject", !.columns = columns]

FunctionParameter(name, data_type, mode) ==
    [name |-> name, data_type |-> data_type, mode |-> mode]

\* a signature hash over the parameter types only, without names and modes
_generate_signature_hash_TypesOnly(parameters, return_type, language) ==
    LET signature_parts ==
            [i \in 1..Len(parameters) |-> parameters[i].data_type]
            \o (IF Truthy(return_type) THEN <<"RETURNS " \o return_type>> ELSE <<>>)
            \o (IF Truthy(language) THEN <<"LANGUAGE " \o language>> ELSE <<>>)
    IN  Sha256(JoinWith(signature_parts, "|"))

\* FunctionASTObject._generate_signature_hash
_generate_signature_hash(parameters, return_type, language) ==
    LET param_str(p) == IF Truthy(p.mode)
                        THEN p.mode \o " " \o p.name \o ":" \o p.data_type
                        ELSE p.name \o ":" \o p.data_type
        signature_parts ==
            [i \in 1..Len(parameters) |-> param_str(parameters[i])]
            \o (IF Truthy(return_type) THEN <<"RETURNS " \o return_type>> ELSE <<>>)
            \o (IF Truthy(language) THEN <<"LANGUAGE " \o language>> ELSE <<>>)
    IN  Sha256(JoinWith(signature_parts, "|"))

\* __post_init__ sets query_type = FUNCTION and generates the signature hash
FunctionASTObject(command, object_name, dependencies, query_hash, schema, parameters, return_type, language) ==
    [ASTObject(command, object_name, "function", dependencies, query_hash, schema)
        EXCEPT !.kind = "FunctionASTObject",
               !.parameters = parameters,
               !.return_type = return_type,
               !.language = language,
               !.signature_hash = _generate_signature_hash(parameters, return_type, language)]

signature_matches(self, other) == self.signature_hash = other.signature_hash

\* TableASTObject.diff: self is the new version, source the prior one.  The
\* dicts keyed by column name keep the first place and the last value of a name.
ColumnDict(columns) ==
    LET names == InsertionOrder([i \in 1..Len(columns) |-> columns[i].name])
    IN  [k \in 1..Len(names) |->
            columns[CHOOSE i \in 1..Len(columns) :
                       /\ columns[i].name = names[k]
                       /\ \A j \in (i + 1)..Len(columns) : columns[j].name # names[k]]]

ColumnNames(columns) == {columns[i].name : i \in 1..Len(columns)}

TableDiffAdded(self, source) ==
    SelectSeq(ColumnDict(self.columns), LAMBDA c : c.name \notin ColumnNames(source.columns))

TableDiffRemoved(self, source) ==
    SelectSeq(ColumnDict(source.columns), LAMBDA c : c.name \notin ColumnNames(self.columns))

\* the list of (old_col, new_col) pairs, in the order of the old columns
TableDiffChanged(self, source) ==
    LET old_columns == ColumnDict(source.columns)
        new_columns == ColumnDict(self.columns)
        NewOf(name) == new_columns[CHOOSE k \in 1..Len(new_columns) : new_columns[k].name = name]
        both == SelectSeq(old_columns, LAMBDA c : c.name \in ColumnNames(self.columns))
        pairs == [k \in 1..Len(both) |-> <<both[k], NewOf(both[k].name)>>]
    IN  SelectSeq(pairs, LAMBDA pr : \/ pr[1].data_type # pr[2].data_type
                                     \/ pr[1].is_nullable # pr[2].is_nullable
                                     \/ pr[1].default # pr[2].default)

(***************************************************************************)
(* sorter.py                                                               *)
(***************************************************************************)
_get_object_name(obj) == qualified_name(obj)

_get_dependencies(obj) == obj.dependencies

_get_query_hash(obj) == obj.query_hash

\* A dict built by "for q in qs: if key(q): d[key(q)] = q": the keys in insertion order.
DictKeys(qs, Key(_)) ==
    LET idx == IndicesWhere(Len(qs), LAMBDA i : Truthy(Key(qs[i])))
    IN  InsertionOrder([k \in 1..Len(idx) |-> Key(qs[idx[k]])])

\* ... and its values: the last q written under each key.
DictValues(qs, Key(_)) ==
    [k \in {Key(qs[i]) : i \in {j \in 1..Len(qs) : Truthy(Key(qs[j]))}} |->
        qs[CHOOSE i \in 1..Len(qs) :
              /\ Key(qs[i]) = k
              /\ \A j \in (i + 1)..Len(qs) : Key(qs[j]) # k]]


\* sort_queries is called with ASTObject instances; query_type.value is the string.
IsGrantOrIndex(q) == q.query_type \in {"grant", "index"}

\* ---- _sort_by_query_hash, lines 59-115: partition, maps, graph ----
grant_index_objects(qs) ==
    LET idx == IndicesWhere(Len(qs), LAMBDA i : IsGrantOrIndex(qs[i]))
    IN  [k \in 1..Len(idx) |-> qs[idx[k]]]

other_objects(qs) ==
    LET idx == IndicesWhere(Len(qs),
                   LAMBDA i : ~IsGrantOrIndex(qs[i]) /\ Truthy(_get_query_hash(qs[i])))
    IN  [k \in 1..Len(idx) |-> qs[idx[k]]]

objects_without_hash(qs) ==
    LET idx == IndicesWhere(Len(qs),
                   LAMBDA i : ~IsGrantOrIndex(qs[i]) /\ ~Truthy(_get_query_hash(qs[i])))
    IN  [k \in 1..Len(idx) |-> qs[idx[k]]]

\* name_to_hash[object_name] = query_hash, the last write wins; None stands for .get() missing.
name_to_hash(qs, name) ==
    LET others == other_objects(qs)
        hits == {i \in 1..Len(others) : Truthy(_get_object_name(others[i]))
                                        /\ _get_object_name(others[i]) = name}
    IN  IF hits = {} THEN None
        ELSE _get_query_hash(others[CHOOSE i \in hits : \A j \in hits : j <= i])

\* The (object, dependency) places of the double loop that add an edge, with the edge's source.
HashEdgeSource(qs, i, j) ==
    LET others == other_objects(qs)
    IN  name_to_hash(qs, _get_dependencies(others[i])[j])

HashEdgePlaces(qs) ==
    LET others == other_objects(qs)
    IN  {p \in UNION {{<<i, j>> : j \in 1..Len(_get_dependencies(others[i]))} : i \in 1..Len(others)} :
            Truthy(HashEdgeSource(qs, p[1], p[2]))}

HashGraph(qs) ==
    LET others == other_objects(qs)
    IN  [h \in Range(DictKeys(others, _get_query_hash)) |->
            {_get_query_hash(others[p[1]]) : p \in {e \in HashEdgePlaces(qs) :
                                                       HashEdgeSource(qs, e[1], e[2]) = h}}]

HashInDegree(qs) ==
    LET others == other_objects(qs)
    IN  [h \in Range(DictKeys(others, _get_query_hash)) |->
            Cardinality({p \in HashEdgePlaces(qs) : _get_query_hash(others[p[1]]) = h})]

\* ---- _sort_by_object_names, lines 146-196: maps, graph ----
\* dep_to_object[dep] = name of the last GRANT that lists dep; None when grant handling is off
\* or no GRANT lists dep.
dep_to_object(qs, gh, dep) ==
    LET hits == {i \in 1..Len(qs) : qs[i].query_type = "grant"
                                    /\ dep \in Range(_get_dependencies(qs[i]))}
    IN  IF ~gh \/ hits = {} THEN None
        ELSE _get_object_name(qs[CHOOSE i \in hits : \A j \in hits : j <= i])

NameEdgeSource(qs, gh, i, j) ==
    LET keys == Range(DictKeys(qs, _get_object_name))
        object_name == _get_object_name(qs[i])
        dep == _get_dependencies(qs[i])[j]
        grant_obj_name == dep_to_object(qs, gh, dep)
    IN  IF dep \in keys THEN dep
        ELSE IF gh /\ grant_obj_name # None
                /\ grant_obj_name \in keys /\ grant_obj_name # object_name
             THEN grant_obj_name
             ELSE None

NameEdgePlaces(qs, gh) ==
    {p \in UNION {{<<i, j>> : j \in 1..Len(_get_dependencies(qs[i]))} : i \in 1..Len(qs)} :
        /\ Truthy(_get_object_name(qs[p[1]]))
        /\ NameEdgeSource(qs, gh, p[1], p[2]) # None}

NameGraph(qs, gh) ==
    [n \in Range(DictKeys(qs, _get_object_name)) |->
        {_get_object_name(qs[p[1]]) : p \in {e \in NameEdgePlaces(qs, gh) :
                                                NameEdgeSource(qs, gh, e[1], e[2]) = n}}]

NameInDegree(qs, gh) ==
    [n \in Range(DictKeys(qs, _get_object_name)) |->
        Cardinality({p \in NameEdgePlaces(qs, gh) : _get_object_name(qs[p[1]]) = n})]

\* deque([k for k in keys if in_degree[k] == 0])
InitialQueue(keys, deg) ==
    LET idx == IndicesWhere(Len(keys), LAMBDA i : deg[keys[i]] = 0)
    IN  [k \in 1..Len(idx) |-> keys[idx[k]]]


(***************************************************************************)
(* The inputs of sort_queries.                                             *)
(***************************************************************************)
SortNames == {"a", "b", "c"}
SortTypes == {"base_table", "grant"}
SortHashes == {"h1", "h2"}

\* By-name mode never reads query_hash: its inputs are built without one and
\* ASTObject generates it.  By-hash mode reads the name, the type, the
\* dependencies and the hash; several actions may share a name or a hash.
SortObjectsByName ==
    {ASTObject("sql", n, t, d, None, None) :
        n \in SortNames \cup {None}, t \in SortTypes, d \in SeqsUpTo(SortNames, MaxDeps)}

SortObjectsByHash ==
    {ASTObject("sql " \o h, n, t, d, h, None) :
        n \in SortNames, t \in SortTypes,
        d \in SeqsUpTo(SortNames, MaxDeps), h \in SortHashes}

\* the state at the call sort_queries(qs, use_object_names=by_name, grant_handling=gh)
SortInitWith(qs, by_name, gh) ==
    /\ pc = "sort_call"
    /\ use_object_names = by_name
    /\ queries = qs
    /\ grant_handling = gh
    /\ node_keys = <<>>
    /\ node_query = <<>>
    /\ graph = <<>>
    /\ in_degree = <<>>
    /\ queue = <<>>
    /\ sorted_keys = <<>>
    /\ tail_objects = <<>>
    /\ base = <<>>
    /\ updated = <<>>
    /\ diff_keys = <<>>
    /\ migration_commands = <<>>
    /\ command_keys = <<>>
    /\ result = None
    /\ raised = None

\* ASTList.sort calls the by-hash mode with grant_handling=True
SortInit ==
    \E by_name \in BOOLEAN :
        \E qs \in SeqsUpTo(IF by_name THEN SortObjectsByName ELSE SortObjectsByHash, MaxLen) :
            \E gh \in (IF by_name THEN BOOLEAN ELSE {TRUE}) :
                SortInitWith(qs, by_name, gh)

\* _sort_by_object_names up to the start of the while loop (lines 146-200)
SortByObjectNamesBuild ==
    /\ pc = "sort_call"
    /\ use_object_names
    /\ node_keys' = DictKeys(queries, _get_object_name)
    /\ node_query' = DictValues(queries, _get_object_name)
    /\ graph' = NameGraph(queries, grant_handling)
    /\ in_degree' = NameInDegree(queries, grant_handling)
    /\ queue' = InitialQueue(node_keys', in_degree')
    /\ sorted_keys' = <<>>
    /\ tail_objects' = <<>>
    /\ pc' = "sort_loop"
    /\ UNCHANGED <<queries, use_object_names, grant_handling, result, raised, diff_vars>>

\* _sort_by_query_hash up to the start of the while loop (lines 59-119)
SortByQueryHashBuild ==
    /\ pc = "sort_call"
    /\ ~use_object_names
    /\ node_keys' = DictKeys(other_objects(queries), _get_query_hash)
    /\ node_query' = DictValues(other_objects(queries), _get_query_hash)
    /\ graph' = HashGraph(queries)
    /\ in_degree' = HashInDegree(queries)
    /\ queue' = InitialQueue(node_keys', in_degree')
    /\ sorted_keys' = <<>>
    /\ tail_objects' = grant_index_objects(queries) \o objects_without_hash(queries)
    /\ pc' = "sort_loop"
    /\ UNCHANGED <<queries, use_object_names, grant_handling, result, raised, diff_vars>>

\* a turn of the loop that appends every neighbor, whatever its in-degree
Dequeue_EnqueueAll ==
    /\ pc = "sort_loop"
    /\ queue # <<>>
    /\ LET current == Head(queue)
           neighbors == graph[current]
       IN  /\ sorted_keys' = Append(sorted_keys, current)
           /\ in_degree' = [n \in DOMAIN in_degree |->
                               IF n \in neighbors THEN in_degree[n] - 1 ELSE in_degree[n]]
           /\ \E visit \in Orders(neighbors) : queue' = Tail(queue) \o visit
    /\ UNCHANGED <<pc, queries, use_object_names, grant_handling, node_keys, node_query,
                   graph, tail_objects, result, raised, diff_vars>>

\* One turn of "while queue:" (lines 121-127 and 202-208).  graph[current] is a
\* set of strings: the order in which "for neighbor in graph[current]" visits it
\* is not fixed by the program.
Dequeue ==
    /\ pc = "sort_loop"
    /\ queue # <<>>
    /\ LET current == Head(queue)
           neighbors == graph[current]
           ready == {n \in neighbors : in_degree[n] - 1 = 0}
       IN  /\ sorted_keys' = Append(sorted_keys, current)
           /\ in_degree' = [n \in DOMAIN in_degree |->
                               IF n \in neighbors THEN in_degree[n] - 1 ELSE in_degree[n]]
           /\ \E visit \in Orders(ready) : queue' = Tail(queue) \o visit
    /\ UNCHANGED <<pc, queries, use_object_names, grant_handling, node_keys, node_query,
                   graph, tail_objects, result, raised, diff_vars>>

CyclicDependency == "ValueError: Cyclic dependency detected"

\* _sort_by_object_names after the loop (lines 210-232)
SortByObjectNamesReturn ==
    /\ pc = "sort_loop"
    /\ queue = <<>>
    /\ use_object_names
    /\ IF Len(sorted_keys) # Len(node_keys)
       THEN raised' = CyclicDependency /\ result' = None
       ELSE LET late == IndicesWhere(Len(queries),
                            LAMBDA i : Truthy(_get_object_name(queries[i]))
                                       /\ _get_object_name(queries[i]) \notin Range(sorted_keys))
                unnamed == IndicesWhere(Len(queries),
                            LAMBDA i : ~Truthy(_get_object_name(queries[i])))
            IN  /\ result' = [k \in 1..Len(sorted_keys) |-> node_query[sorted_keys[k]]]
                             \o [k \in 1..Len(late) |-> queries[late[k]]]
                             \o [k \in 1..Len(unnamed) |-> queries[unnamed[k]]]
                /\ raised' = None
    /\ pc' = "sort_done"
    /\ UNCHANGED <<queries, use_object_names, grant_handling, node_keys, node_query,
                   graph, in_degree, queue, sorted_keys, tail_objects, diff_vars>>

\* _sort_by_query_hash after the loop (lines 132-139)
SortByQueryHashReturn ==
    /\ pc = "sort_loop"
    /\ queue = <<>>
    /\ ~use_object_names
    /\ IF Len(sorted_keys) # Len(node_keys)
       THEN raised' = CyclicDependency /\ result' = None
       ELSE /\ result' = [k \in 1..Len(sorted_keys) |-> node_query[sorted_keys[k]]]
                         \o tail_objects
            /\ raised' = None
    /\ pc' = "sort_done"
    /\ UNCHANGED <<queries, use_object_names, grant_handling, node_keys, node_query,
                   graph, in_degree, queue, sorted_keys, tail_objects, diff_vars>>

SortNext ==
    \/ SortByObjectNamesBuild
    \/ SortByQueryHashBuild
    \/ Dequeue
    \/ SortByObjectNamesReturn
    \/ SortByQueryHashReturn

SortSpec == SortInit /\ [][SortNext]_vars

\* inputs over two names: chains, cycles, self-references, shared names and hashes
LiveNames == {"a", "b"}

LiveObjectsByName ==
    {ASTObject("sql", n, t, d, None, None) :
        n \in LiveNames, t \in SortTypes, d \in SeqsUpTo(LiveNames, MaxDeps)}

LiveObjectsByHash ==
    {ASTObject("sql " \o h, n, t, d, h, None) :
        n \in LiveNames, t \in SortTypes, d \in SeqsUpTo(LiveNames, MaxDeps), h \in SortHashes}

SortLiveInit ==
    \E by_name \in BOOLEAN :
        \E qs \in SeqsUpTo(IF by_name THEN LiveObjectsByName ELSE LiveObjectsByHash, MaxLen) :
            \E gh \in (IF by_name THEN BOOLEAN ELSE {TRUE}) :
                SortInitWith(qs, by_name, gh)

\* SortNext as it shows on pc and sorted_keys: the build enters the loop, a turn
\* of the loop appends the head of the queue, the empty queue ends the call.
\* Every step of SortNext is one of these, and one of these is possible exactly
\* where SortNext is.
Proceeds ==
    \/ pc = "sort_call" /\ pc' = "sort_loop" /\ sorted_keys' = <<>>
    \/ /\ pc = "sort_loop" /\ queue # <<>>
       /\ pc' = pc /\ sorted_keys' = Append(sorted_keys, Head(queue))
    \/ pc = "sort_loop" /\ queue = <<>> /\ pc' = "sort_done" /\ sorted_keys' = sorted_keys

\* sort_queries runs synchronously: a call that can take a step takes it
SortLiveSpec == SortLiveInit /\ [][SortNext]_vars /\ WF_<<pc, sorted_keys>>(Proceeds)


(***************************************************************************)
(* Inputs of sort_queries that hold actions without a name, in both modes. *)
(***************************************************************************)
UnnamedObjectsByName ==
    {ASTObject("sql", n, "base_table", d, None, None) :
        n \in {None, "a", "b"}, d \in {<<>>, <<"a">>}}

UnnamedObjectsByHash ==
    {ASTObject("sql " \o h, n, "base_table", d, h, None) :
        n \in {None, "a"}, d \in {<<>>, <<"a">>}, h \in SortHashes}

UnnamedSortInit ==
    \E by_name \in BOOLEAN :
        \E qs \in SeqsUpTo(IF by_name THEN UnnamedObjectsByName ELSE UnnamedObjectsByHash, MaxLen) :
            \E gh \in (IF by_name THEN BOOLEAN ELSE {TRUE}) :
                SortInitWith(qs, by_name, gh)

UnnamedSortSpec == UnnamedSortInit /\ [][SortNext]_vars

(***************************************************************************)
(* Claims about the sorter.                                                *)
(***************************************************************************)
SortReturned == pc = "sort_done" /\ raised = None

Count(s, x) == Cardinality({i \in 1..Len(s) : s[i] = x})

\* a's dependencies name b
Names(a, b) == Truthy(qualified_name(b)) /\ qualified_name(b) \in Range(a.dependencies)

\* C1: whenever sort_queries returns a list, for every action a of the list and
\* every name d in a.dependencies, every other action b of the list whose
\* qualified name is d stands before a.
C1_TopologicalValidity ==
    SortReturned =>
        \A i, j \in 1..Len(result) :
            (i # j /\ Names(result[i], result[j])) => j < i

\* The same statement for the by-name mode alone.
C1_ByNameOnly == use_object_names => C1_TopologicalValidity

\* C2: whenever sort_queries returns, the returned list is a permutation of the input list.
C2_Permutation ==
    SortReturned =>
        /\ Len(result) = Len(queries)
        /\ \A x \in Range(queries) \cup Range(result) : Count(result, x) = Count(queries, x)

\* C3: an input with two actions whose dependencies name each other makes the
\* call raise the cycle error, in both modes and for every query type.
MutuallyDependent ==
    \E i, j \in 1..Len(queries) :
        i # j /\ Names(queries[i], queries[j]) /\ Names(queries[j], queries[i])

C3_CycleDetected ==
    (pc = "sort_done" /\ MutuallyDependent) => (raised = CyclicDependency /\ result = None)

C3_ByNameOnly == use_object_names => C3_CycleDetected


(***************************************************************************)
(* diff.py                                                                 *)
(***************************************************************************)
\* An outcome of a helper: the exception it raised (or None) and the commands it produced.
Returns(cmds) == [exc |-> None, cmds |-> cmds]
Raises(exc) == [exc |-> exc, cmds |-> <<>>]

\* query_type.value.upper()
UpperTypeName(query_type) ==
    CASE query_type = "extension" -> "EXTENSION"
      [] query_type = "schema" -> "SCHEMA"
      [] query_type = "enum" -> "ENUM"
      [] query_type = "domain" -> "DOMAIN"
      [] query_type = "composite_type" -> "COMPOSITE_TYPE"
      [] query_type = "sequence" -> "SEQUENCE"
      [] query_type = "dependent_table" -> "DEPENDENT_TABLE"
      [] query_type = "trigger" -> "TRIGGER"
      [] query_type = "unknown" -> "UNKNOWN"
      [] OTHER -> query_type

\* parser.normalize_sql, on texts without comments and redundant whitespace
normalize_sql(sql) == "ws(" \o sql \o ")"

\* parse_sql_to_ast_objects, lines 75-80: the hash the parser gives a statement
ParserHash(query_text) == Sha256(normalize_sql(query_text))

\* str.split('_') of the grant names of this model
SplitUnderscore(name) ==
    CASE name = "users" -> <<"users">>
      [] name = "grant_on_users" -> <<"grant", "on", "users">>
      [] name = "grant_select_on_users_to_app" -> <<"grant", "select", "on", "users", "to", "app">>
      [] OTHER -> <<name>>

\* name.replace('grant_', '').split('_on_'): the pieces
SplitOnAfterReplace(name) ==
    CASE name = "users" -> <<"users">>
      [] name = "grant_on_users" -> <<"on_users">>
      [] name = "grant_select_on_users_to_app" -> <<"select", "users_to_app">>
      [] OTHER -> <<name>>

\* piece.split('_to_')[0]
BeforeTo(piece) ==
    CASE piece = "users_to_app" -> "users"
      [] OTHER -> piece

\* list.index(x): the first place of x, 0 for ValueError
IndexOf(parts, x) ==
    IF x \in Range(parts) THEN CHOOSE i \in 1..Len(parts) : parts[i] = x /\ \A j \in 1..(i - 1) : parts[j] # x
    ELSE 0

\* parse_sql_to_ast_objects(revoke_sql, grants=True) on "REVOKE <privileges> ON
\* <object> FROM <grantees>;": the statement parses when the privileges and the
\* grantees are one word each; _parse_grant_statement then yields one GRANT
\* object named after the target relation.  An unparsable text raises ValueError.
ParseRevoke(privilege_str, target, grantee_str, parses) ==
    IF ~parses THEN Raises("ValueError")
    ELSE LET query_text == "REVOKE " \o privilege_str \o " ON " \o target \o " FROM " \o grantee_str
         IN  Returns(<<ASTObject(query_text, target, "grant", <<target>>,
                                 ParserHash(query_text), None)>>)

\* _generate_drop_command, GRANT branch (lines 82-115)
GrantRevokeCommand(obj) ==
    LET grant_parts == SplitUnderscore(obj.object_name)
        on_index == IndexOf(grant_parts, "on")
        to_index == IndexOf(grant_parts, "to")
        privileges == SubSeq(grant_parts, 2, on_index - 1)
        grantees == SubSeq(grant_parts, to_index + 1, Len(grant_parts))
        first_try ==
            IF Len(grant_parts) >= 5 /\ grant_parts[1] = "grant"
               /\ on_index # 0 /\ to_index # 0 /\ on_index < to_index
            THEN ParseRevoke(IF privileges # <<>> THEN JoinWith(privileges, " ") ELSE "ALL",
                             JoinWith(SubSeq(grant_parts, on_index + 1, to_index - 1), "_"),
                             IF grantees # <<>> THEN JoinWith(grantees, " ") ELSE "PUBLIC",
                             Len(privileges) <= 1 /\ Len(grantees) <= 1)
            ELSE Raises("ValueError")
        pieces == SplitOnAfterReplace(obj.object_name)
    IN  IF first_try.exc = None /\ first_try.cmds # <<>>
        THEN Returns(<<first_try.cmds[1]>>)
        ELSE IF Len(pieces) < 2 THEN Raises("IndexError")
        ELSE Returns(<<ParseRevoke("ALL", BeforeTo(pieces[2]), "PUBLIC", TRUE).cmds[1]>>)

\* the parenthesised parameter types of DROP FUNCTION / DROP PROCEDURE
DropSignature(obj) ==
    IF obj.kind = "FunctionASTObject" /\ obj.parameters # <<>>
    THEN "(" \o JoinWith([i \in 1..Len(obj.parameters) |-> obj.parameters[i].data_type], ", ") \o ")"
    ELSE ""

\* _generate_drop_command (lines 50-125)
_generate_drop_command(obj) ==
    LET object_name == qualified_name(obj)
        Drop(command) == Returns(<<ASTObject(command, obj.object_name, "unknown",
                                             obj.dependencies, None, obj.schema)>>)
    IN  CASE obj.query_type = "base_table" -> Drop("DROP TABLE " \o object_name \o ";")
          [] obj.query_type = "view" -> Drop("DROP VIEW " \o object_name \o ";")
          [] obj.query_type = "materialized_view" ->
                Drop("DROP MATERIALIZED VIEW " \o object_name \o ";")
          [] obj.query_type = "function" ->
                Drop("DROP FUNCTION " \o object_name \o DropSignature(obj) \o ";")
          [] obj.query_type = "procedure" ->
                Drop("DROP PROCEDURE " \o object_name \o DropSignature(obj) \o ";")
          [] obj.query_type = "index" -> Drop("DROP INDEX " \o object_name \o ";")
          \* object_name.split('.')[-1] of "<schema>.<name>" or "<name>" is <name>
          [] obj.query_type = "constraint" ->
                Drop("ALTER TABLE " \o obj.object_name \o " DROP CONSTRAINT " \o obj.object_name \o ";")
          [] obj.query_type = "policy" ->
                Drop("DROP POLICY " \o obj.object_name \o " ON " \o obj.object_name \o ";")
          [] obj.query_type = "grant" -> GrantRevokeCommand(obj)
          [] OTHER -> Drop("DROP " \o UpperTypeName(obj.query_type) \o " " \o object_name \o ";")


RECURSIVE Flatten(_)
\* the concatenation of a list of lists
Flatten(lists) == IF lists = <<>> THEN <<>> ELSE lists[1] \o Flatten(Tail(lists))

\* the ASTObject every ALTER TABLE statement is wrapped in
AlterObject(alter_command, new_obj) ==
    ASTObject(alter_command, new_obj.object_name, "unknown", new_obj.dependencies,
              None, new_obj.schema)

AddColumnCommand(table_name, column) ==
    "ALTER TABLE " \o table_name \o " ADD COLUMN " \o column.name \o " " \o column.data_type
    \o (IF ~column.is_nullable THEN " NOT NULL" ELSE "")
    \o (IF Truthy(column.default) THEN " DEFAULT " \o column.default ELSE "")
    \o ";"

DropColumnCommand(table_name, column) ==
    "ALTER TABLE " \o table_name \o " DROP COLUMN " \o column.name \o ";"

AlterTypeCommand(table_name, new_col) ==
    "ALTER TABLE " \o table_name \o " ALTER COLUMN " \o new_col.name
    \o " TYPE " \o new_col.data_type \o ";"

AlterNullCommand(table_name, new_col) ==
    "ALTER TABLE " \o table_name \o " ALTER COLUMN " \o new_col.name
    \o (IF new_col.is_nullable THEN " DROP NOT NULL;" ELSE " SET NOT NULL;")

AlterDefaultCommand(table_name, new_col) ==
    "ALTER TABLE " \o table_name \o " ALTER COLUMN " \o new_col.name
    \o (IF new_col.default = None THEN " DROP DEFAULT;"
        ELSE " SET DEFAULT " \o new_col.default \o ";")

\* the statements of one changed column with the nullability ahead of the type
ChangedColumnCommands_NullFirst(table_name, old_col, new_col) ==
    (IF old_col.is_nullable # new_col.is_nullable
     THEN <<AlterNullCommand(table_name, new_col)>> ELSE <<>>)
    \o (IF old_col.data_type # new_col.data_type
        THEN <<AlterTypeCommand(table_name, new_col)>> ELSE <<>>)
    \o (IF old_col.default # new_col.default
        THEN <<AlterDefaultCommand(table_name, new_col)>> ELSE <<>>)

\* the statements of one changed column (lines 261-302)
ChangedColumnCommands(table_name, old_col, new_col) ==
    (IF old_col.data_type # new_col.data_type
     THEN <<AlterTypeCommand(table_name, new_col)>> ELSE <<>>)
    \o (IF old_col.is_nullable # new_col.is_nullable
        THEN <<AlterNullCommand(table_name, new_col)>> ELSE <<>>)
    \o (IF old_col.default # new_col.default
        THEN <<AlterDefaultCommand(table_name, new_col)>> ELSE <<>>)

\* _generate_table_alter_commands (lines 217-321)
_generate_table_alter_commands(old_obj, new_obj) ==
    LET table_name == qualified_name(new_obj)
        added_columns == TableDiffAdded(new_obj, old_obj)
        removed_columns == TableDiffRemoved(new_obj, old_obj)
        changed_columns == TableDiffChanged(new_obj, old_obj)
        texts ==
            [i \in 1..Len(added_columns) |-> AddColumnCommand(table_name, added_columns[i])]
            \o [i \in 1..Len(removed_columns) |-> DropColumnCommand(table_name, removed_columns[i])]
            \o Flatten([i \in 1..Len(changed_columns) |->
                          ChangedColumnCommands(table_name, changed_columns[i][1],
                                                changed_columns[i][2])])
    IN  IF old_obj.kind = "TableASTObject" /\ new_obj.kind = "TableASTObject"
        THEN [i \in 1..Len(texts) |-> AlterObject(texts[i], new_obj)]
        ELSE IF old_obj.query_hash # new_obj.query_hash
        THEN <<AlterObject("ALTER TABLE " \o table_name
                           \o " ADD COLUMN new_column TEXT; -- TODO: Implement proper column comparison",
                           new_obj)>>
        ELSE <<>>

\* _generate_alter_commands, FUNCTION and PROCEDURE branches (lines 143-179)
FunctionAlterCommands(old_obj, new_obj) ==
    LET drop_cmd == _generate_drop_command(old_obj)
    IN  IF old_obj.kind = "FunctionASTObject" /\ new_obj.kind = "FunctionASTObject"
           /\ signature_matches(old_obj, new_obj)
        THEN Returns(<<new_obj>>)
        ELSE Returns(drop_cmd.cmds \o <<new_obj>>)

\* _generate_alter_commands, GRANT branch (lines 181-213)
GrantAlterCommands(old_obj, new_obj) ==
    LET old_grant_parts == SplitUnderscore(old_obj.object_name)
        on_index == IndexOf(old_grant_parts, "on")
        to_index == IndexOf(old_grant_parts, "to")
        privileges == SubSeq(old_grant_parts, 2, on_index - 1)
        grantees == SubSeq(old_grant_parts, to_index + 1, Len(old_grant_parts))
        revoke ==
            ParseRevoke(IF privileges # <<>> THEN JoinWith(privileges, " ") ELSE "ALL",
                        JoinWith(SubSeq(old_grant_parts, on_index + 1, to_index - 1), "_"),
                        IF grantees # <<>> THEN JoinWith(grantees, " ") ELSE "PUBLIC",
                        Len(privileges) <= 1 /\ Len(grantees) <= 1)
        pieces == SplitOnAfterReplace(old_obj.object_name)
    IN  IF ~(Len(old_grant_parts) >= 5 /\ old_grant_parts[1] = "grant")
        THEN Returns(<<new_obj>>)
        ELSE IF on_index # 0 /\ to_index # 0
        THEN IF on_index < to_index
             THEN IF revoke.exc = None
                  THEN Returns(revoke.cmds \o <<new_obj>>)
                  \* the except branch: the fallback REVOKE
                  ELSE IF Len(pieces) < 2 THEN Raises("IndexError")
                  ELSE Returns(ParseRevoke("ALL", BeforeTo(pieces[2]), "PUBLIC", TRUE).cmds
                               \o <<new_obj>>)
             ELSE Returns(<<new_obj>>)
        ELSE IF Len(pieces) < 2 THEN Raises("IndexError")
        ELSE Returns(ParseRevoke("ALL", BeforeTo(pieces[2]), "PUBLIC", TRUE).cmds \o <<new_obj>>)

\* _generate_alter_commands (lines 127-215)
_generate_alter_commands(old_obj, new_obj) ==
    CASE old_obj.query_type = "base_table" ->
            Returns(_generate_table_alter_commands(old_obj, new_obj))
      [] old_obj.query_type = "view" ->
            LET drop_cmd == _generate_drop_command(old_obj)
            IN  Returns(drop_cmd.cmds \o <<new_obj>>)
      [] old_obj.query_type \in {"function", "procedure"} ->
            FunctionAlterCommands(old_obj, new_obj)
      [] old_obj.query_type = "grant" -> GrantAlterCommands(old_obj, new_obj)
      [] OTHER -> Returns(<<>>)

\* a key that leaves the schema out
make_key_ObjectName(obj) == <<obj.query_type, obj.object_name>>

\* make_key: f"{obj.query_type.value}:{obj.qualified_name}".  No type name holds a
\* ':', so the text and the pair <<type, name>> determine each other.

make_key(obj) == <<obj.query_type, qualified_name(obj)>>

\* {make_key(obj): obj for obj in collection}: the last object of a key is kept
MapKeys(collection) == {make_key(collection[i]) : i \in 1..Len(collection)}

MapGet(collection, key) ==
    collection[CHOOSE i \in 1..Len(collection) :
                  /\ make_key(collection[i]) = key
                  /\ \A j \in (i + 1)..Len(collection) : make_key(collection[j]) # key]


\* The order of python's string comparison on the type names and on the
\* qualified names of this model, ascending.
TypeOrder ==
    <<"base_table", "composite_type", "constraint", "dependent_table", "domain", "enum",
      "extension", "function", "grant", "index", "materialized_view", "policy",
      "procedure", "schema", "sequence", "trigger", "unknown", "view">>

NameOrder ==
    <<"f", "grant_on_users", "grant_select_on_users_to_app", "orders", "private.users",
      "public.users", "thing", "trigger_on_users", "users", "users_email_idx", "users_mv",
      "users_pkey", "users_policy", "users_seq", "users_view">>

Place(order, x) == CHOOSE i \in 1..Len(order) : order[i] = x

\* "type1:name1" < "type2:name2": no type name is a prefix of another one
KeyLess(k1, k2) ==
    \/ Place(TypeOrder, k1[1]) < Place(TypeOrder, k2[1])
    \/ k1[1] = k2[1] /\ Place(NameOrder, k1[2]) < Place(NameOrder, k2[2])

RECURSIVE SortedKeys(_)
\* sorted(all_keys)
SortedKeys(keys) ==
    IF keys = {} THEN <<>>
    ELSE LET least == CHOOSE k \in keys : \A other \in keys \ {k} : KeyLess(k, other)
         IN  <<least>> \o SortedKeys(keys \ {least})

\* a loop body that does not compare the hashes of a key present on both sides
DiffOfKey_NoHashCheck(b, u, key) ==
    IF key \notin MapKeys(b) THEN Returns(<<MapGet(u, key)>>)
    ELSE IF key \notin MapKeys(u) THEN _generate_drop_command(MapGet(b, key))
    ELSE _generate_alter_commands(MapGet(b, key), MapGet(u, key))

\* a loop body that does not append the new object
DiffOfKey_CreateLost(b, u, key) ==
    IF key \notin MapKeys(b) THEN Returns(<<>>)
    ELSE IF key \notin MapKeys(u) THEN _generate_drop_command(MapGet(b, key))
    ELSE IF MapGet(b, key).query_hash # MapGet(u, key).query_hash
    THEN _generate_alter_commands(MapGet(b, key), MapGet(u, key))
    ELSE Returns(<<>>)

\* the body of "for key in sorted(all_keys)" (lines 29-46) for one key
DiffOfKey(b, u, key) ==
    IF key \notin MapKeys(b) THEN Returns(<<MapGet(u, key)>>)
    ELSE IF key \notin MapKeys(u) THEN _generate_drop_command(MapGet(b, key))
    ELSE IF MapGet(b, key).query_hash # MapGet(u, key).query_hash
    THEN _generate_alter_commands(MapGet(b, key), MapGet(u, key))
    ELSE Returns(<<>>)

RECURSIVE DiffLoop(_, _, _, _)
\* the loop of lines 28-46 from the keys still to visit; acc holds the commands
\* appended so far and the key of each
DiffLoop(b, u, keys, acc) ==
    IF keys = <<>> THEN acc
    ELSE LET outcome == DiffOfKey(b, u, Head(keys))
         IN  IF outcome.exc # None
             THEN [exc |-> outcome.exc, cmds |-> <<>>, keys |-> <<>>]
             ELSE DiffLoop(b, u, Tail(keys),
                           [exc |-> None,
                            cmds |-> acc.cmds \o outcome.cmds,
                            keys |-> acc.keys \o [i \in 1..Len(outcome.cmds) |-> Head(keys)]])

\* diff_schemas as one call: what it returns (cmds with the key of each) or raises
diff_schemas(b, u) ==
    DiffLoop(b, u, SortedKeys(MapKeys(b) \cup MapKeys(u)),
             [exc |-> None, cmds |-> <<>>, keys |-> <<>>])

DiffInitWith(b, u) ==
    /\ pc = "diff_call"
    /\ base = b
    /\ updated = u
    /\ diff_keys = <<>>
    /\ migration_commands = <<>>
    /\ command_keys = <<>>
    /\ result = None
    /\ raised = None
    /\ queries = <<>>
    /\ use_object_names = FALSE
    /\ grant_handling = TRUE
    /\ node_keys = <<>>
    /\ node_query = <<>>
    /\ graph = <<>>
    /\ in_degree = <<>>
    /\ queue = <<>>
    /\ sorted_keys = <<>>
    /\ tail_objects = <<>>

\* diff_schemas, lines 20-26: the maps and the key set
DiffBuild ==
    /\ pc = "diff_call"
    /\ diff_keys' = SortedKeys(MapKeys(base) \cup MapKeys(updated))
    /\ migration_commands' = <<>>
    /\ command_keys' = <<>>
    /\ pc' = "diff_loop"
    /\ UNCHANGED <<base, updated, result, raised, sort_vars>>

\* one turn of the loop over sorted(all_keys) (lines 28-46); an exception of a
\* helper ends the call
DiffStep ==
    /\ pc = "diff_loop"
    /\ diff_keys # <<>>
    /\ LET key == Head(diff_keys)
           outcome == DiffOfKey(base, updated, key)
       IN  IF outcome.exc # None
           THEN /\ raised' = outcome.exc
                /\ pc' = "diff_done"
                /\ UNCHANGED <<diff_keys, migration_commands, command_keys>>
           ELSE /\ migration_commands' = migration_commands \o outcome.cmds
                /\ command_keys' = command_keys \o [i \in 1..Len(outcome.cmds) |-> key]
                /\ diff_keys' = Tail(diff_keys)
                /\ UNCHANGED <<pc, raised>>
    /\ UNCHANGED <<base, updated, result, sort_vars>>

\* return ASTList(migration_commands) (line 48)
DiffReturn ==
    /\ pc = "diff_loop"
    /\ diff_keys = <<>>
    /\ result' = migration_commands
    /\ pc' = "diff_done"
    /\ UNCHANGED <<base, updated, diff_keys, migration_commands, command_keys, raised, sort_vars>>

DiffNext == DiffBuild \/ DiffStep \/ DiffReturn

(***************************************************************************)
(* The inputs of diff_schemas: objects as parse_sql_to_ast_objects builds  *)
(* them.                                                                   *)
(***************************************************************************)
MaxObjects == 2

ColumnSql(column) ==
    column.name \o " " \o column.data_type
    \o (IF ~column.is_nullable THEN " NOT NULL" ELSE "")
    \o (IF Truthy(column.default) THEN " DEFAULT " \o column.default ELSE "")

\* a CREATE TABLE statement and the TableASTObject _parse_create_statement builds from it
ParsedTable(schema, table_name, dependencies, columns, rest) ==
    LET query_text ==
            "CREATE TABLE " \o (IF schema = None THEN "" ELSE schema \o ".") \o table_name \o " ("
            \o JoinWith([i \in 1..Len(columns) |-> ColumnSql(columns[i])], ", ") \o rest \o ")"
    IN  TableASTObject(query_text, table_name, dependencies, ParserHash(query_text),
                       schema, columns)

\* a GRANT statement on a table and the object _parse_grant_statement builds from it
ParsedGrant(privileges, table_name, grantee) ==
    LET query_text == "GRANT " \o privileges \o " ON " \o table_name \o " TO " \o grantee
    IN  ASTObject(query_text, table_name, "grant", <<table_name>>, ParserHash(query_text), None)

\* the same statement under the name the GRANT branches of diff.py take apart
NamedGrant(privileges, table_name, grantee, object_name) ==
    [ParsedGrant(privileges, table_name, grantee) EXCEPT !.object_name = object_name]

\* the text of a view after CREATE VIEW
ViewBody(view_name, table_name) == view_name \o " AS SELECT * FROM " \o table_name

\* a CREATE VIEW statement and the object _parse_view_statement builds from it: the
\* dependencies of a view are left empty
ParsedView(view_name, table_name) ==
    LET query_text == "CREATE VIEW " \o ViewBody(view_name, table_name)
    IN  ASTObject(query_text, view_name, "view", <<>>, ParserHash(query_text), None)

IdColumn == TableColumn("id", "INT", FALSE, None)
EmailColumn == TableColumn("email", "TEXT", TRUE, None)

DiffObjects ==
    {ParsedTable("public", "users", <<>>, <<IdColumn>>, ""),
     ParsedTable("private", "users", <<>>, <<IdColumn, EmailColumn>>, ""),
     ParsedTable(None, "users", <<>>, <<IdColumn>>, ""),
     ParsedTable(None, "users", <<>>, <<IdColumn, EmailColumn>>, ""),
     ParsedTable(None, "orders", <<"users">>, <<IdColumn>>, ", FOREIGN KEY (id) REFERENCES users(id)"),
     ParsedGrant("SELECT", "users", "app")}

DiffInit ==
    \E b, u \in SeqsUpTo(DiffObjects, MaxObjects) : DiffInitWith(b, u)

DiffSpec == DiffInit /\ [][DiffNext]_vars


(***************************************************************************)
(* One table on each side: the column changes of _generate_table_alter_-   *)
(* commands.                                                               *)
(***************************************************************************)
MaxCols == 2

\* id varies in type, nullability and default; email in nullability and default
TableColumns ==
    {TableColumn("id", t, n, d) : t \in {"INT", "TEXT"}, n \in BOOLEAN, d \in {None, "0"}}
    \cup {TableColumn("email", "TEXT", TRUE, None), TableColumn("email", "TEXT", FALSE, "''")}
    \cup {TableColumn("age", "INT", TRUE, None)}

\* the column lists of a table PostgreSQL accepts: no name twice
ColumnLists ==
    {columns \in SeqsUpTo(TableColumns, MaxCols) :
        \A i, j \in 1..Len(columns) : columns[i].name = columns[j].name => i = j}

TableDiffInit ==
    \E old_columns, new_columns \in ColumnLists :
        \E rest \in {"", ", CHECK (true)"} :
            DiffInitWith(<<ParsedTable(None, "users", <<>>, old_columns, "")>>,
                         <<ParsedTable(None, "users", <<>>, new_columns, rest)>>)

TableDiffSpec == TableDiffInit /\ [][DiffNext]_vars

(***************************************************************************)
(* One function on each side: the FUNCTION branch of _generate_alter_-     *)
(* commands.                                                               *)
(***************************************************************************)
MaxParams == 2

\* mode "o" is what _parse_function_statement records for an OUT parameter
ParameterSql(param) ==
    (IF param.mode = "o" THEN "OUT " ELSE "") \o param.name \o " " \o param.data_type

\* a CREATE FUNCTION statement and the FunctionASTObject _parse_function_statement
\* builds from it
ParsedFunction(func_name, parameters, return_type, language, func_body) ==
    LET query_text ==
            "CREATE FUNCTION " \o func_name \o "("
            \o JoinWith([i \in 1..Len(parameters) |-> ParameterSql(parameters[i])], ", ")
            \o ") RETURNS " \o return_type \o " LANGUAGE " \o language
            \o " AS '" \o func_body \o "'"
    IN  FunctionASTObject(query_text, func_name, <<>>, ParserHash(query_text), None,
                          parameters, return_type, language)

\* the same function as ASTObject.from_dict rebuilds it: a plain ASTObject
PlainFunction(func_name, func_body) ==
    LET query_text == "CREATE FUNCTION " \o func_name \o "() RETURNS int LANGUAGE sql AS '"
                      \o func_body \o "'"
    IN  ASTObject(query_text, func_name, "function", <<>>, ParserHash(query_text), None)

FunctionParameters ==
    {FunctionParameter("x", "int", None), FunctionParameter("x", "text", None),
     FunctionParameter("y", "int", None), FunctionParameter("x", "int", "o")}

FunctionObjects ==
    {ParsedFunction("f", parameters, rl[1], rl[2], func_body) :
        parameters \in SeqsUpTo(FunctionParameters, MaxParams),
        rl \in {<<"int", "sql">>, <<"text", "sql">>, <<"int", "plpgsql">>},
        func_body \in {"SELECT 1", "SELECT 2"}}
    \cup {PlainFunction("f", func_body) : func_body \in {"SELECT 1", "SELECT 2"}}

FunctionDiffInit ==
    \E old_obj, new_obj \in FunctionObjects : DiffInitWith(<<old_obj>>, <<new_obj>>)

FunctionDiffSpec == FunctionDiffInit /\ [][DiffNext]_vars

(***************************************************************************)
(* Tables that went through to_dict_list / from_dict_list on either side.  *)
(***************************************************************************)
\* ASTObject.to_dict: the fields of the base class; columns are not among them
to_dict(obj) ==
    [query_text |-> obj.command,
     object_name |-> obj.object_name,
     query_type |-> obj.query_type,
     dependencies |-> obj.dependencies,
     query_hash |-> obj.query_hash,
     schema |-> obj.schema]

\* ASTObject.from_dict: always the base class
from_dict(data) ==
    ASTObject(data.query_text, data.object_name, data.query_type, data.dependencies,
              data.query_hash, data.schema)

\* ASTList.from_dict_list
from_dict_list(dicts) == [i \in 1..Len(dicts) |-> from_dict(dicts[i])]

\* ASTList.to_dict_list
to_dict_list(objects) == [i \in 1..Len(objects) |-> to_dict(objects[i])]

PlainTableDiffInit ==
    \E old_columns, new_columns \in ColumnLists :
        \E old_plain, new_plain \in BOOLEAN :
            LET b == <<ParsedTable(None, "users", <<>>, old_columns, "")>>
                u == <<ParsedTable(None, "users", <<>>, new_columns, "")>>
            IN  DiffInitWith(IF old_plain THEN from_dict_list(to_dict_list(b)) ELSE b,
                             IF new_plain THEN from_dict_list(to_dict_list(u)) ELSE u)

PlainTableDiffSpec == PlainTableDiffInit /\ [][DiffNext]_vars

(***************************************************************************)
(* Procedures: CREATE PROCEDURE statements on either side.                 *)
(***************************************************************************)
\* a CREATE PROCEDURE statement and the object _parse_procedure_statement builds
\* from it: FunctionASTObject(..., return_type=None, query_type=BuildStage.PROCEDURE),
\* whose __post_init__ assigns query_type = BuildStage.FUNCTION
ParsedProcedure(proc_name, parameters, language, proc_body) ==
    LET query_text ==
            "CREATE PROCEDURE " \o proc_name \o "("
            \o JoinWith([i \in 1..Len(parameters) |-> ParameterSql(parameters[i])], ", ")
            \o ") LANGUAGE " \o language \o " AS '" \o proc_body \o "'"
    IN  FunctionASTObject(query_text, proc_name, <<>>, ParserHash(query_text), None,
                          parameters, None, language)

ProcedureObjects ==
    {ParsedProcedure("p", parameters, language, proc_body) :
        parameters \in SeqsUpTo(FunctionParameters, MaxParams),
        language \in {"sql", "plpgsql"},
        proc_body \in {"SELECT 1", "SELECT 2"}}

\* a procedure in base; in updated the same or another version of it, or nothing
ProcedureDiffInit ==
    \E old_obj \in ProcedureObjects :
        \E u \in SeqsUpTo(ProcedureObjects, 1) : DiffInitWith(<<old_obj>>, u)

ProcedureDiffSpec == ProcedureDiffInit /\ [][DiffNext]_vars

(***************************************************************************)
(* One object of any other kind on each side: the remaining branches of    *)
(* _generate_alter_commands.                                               *)
(***************************************************************************)
\* CREATE INDEX / ALTER TABLE ADD CONSTRAINT / CREATE POLICY statements and the
\* objects the parser builds from them
ParsedIndex(index_name, table_name, column_name) ==
    LET query_text == "CREATE INDEX " \o index_name \o " ON " \o table_name
                      \o " (" \o column_name \o ")"
    IN  ASTObject(query_text, index_name, "index", <<table_name>>, ParserHash(query_text), None)

ParsedConstraint(conname, table_name, definition) ==
    LET query_text == "ALTER TABLE " \o table_name \o " ADD CONSTRAINT " \o conname
                      \o " " \o definition
    IN  ASTObject(query_text, conname, "constraint", <<table_name>>, ParserHash(query_text), None)

ParsedPolicy(policy_name, table_name, condition) ==
    LET query_text == "CREATE POLICY " \o policy_name \o " ON " \o table_name
                      \o " USING (" \o condition \o ")"
    IN  ASTObject(query_text, policy_name, "policy", <<table_name>>, ParserHash(query_text), None)

\* an object of extract_build_queries(use_ast_objects=True): no query_hash is
\* handed over, the ASTObject generates its own
ExtractedObject(query_type, object_name, query_text, dependencies) ==
    ASTObject(query_text, object_name, query_type, dependencies, None, None)

GrantTexts ==
    {<<"SELECT", "app">>, <<"SELECT, INSERT", "app">>, <<"SELECT", "admin">>}

ChangedObjects ==
    {ParsedView("users_view", t) : t \in {"users", "orders"}}
    \cup {ParsedIndex("users_email_idx", "users", c) : c \in {"email", "id"}}
    \cup {ParsedConstraint("users_pkey", "users", d) : d \in {"PRIMARY KEY (id)", "UNIQUE (id)"}}
    \cup {ParsedPolicy("users_policy", "users", c) : c \in {"true", "false"}}
    \cup {ExtractedObject("materialized_view", "users_mv",
                          "CREATE MATERIALIZED VIEW users_mv AS SELECT * FROM " \o t, <<t>>) :
             t \in {"users", "orders"}}
    \cup {ExtractedObject("trigger", "trigger_on_users",
                          "CREATE TRIGGER t AFTER " \o e \o " ON users EXECUTE FUNCTION f()",
                          <<"users">>) : e \in {"INSERT", "UPDATE"}}
    \cup {ExtractedObject("sequence", "users_seq", "CREATE SEQUENCE users_seq" \o o, <<>>) :
             o \in {"", " START 10"}}
    \cup {ExtractedObject("unknown", "thing", c, <<>>) : c \in {"COMMENT ON a", "COMMENT ON b"}}
    \cup {ParsedGrant(g[1], "users", g[2]) : g \in GrantTexts}
    \cup {ExtractedObject("grant", "grant_on_users",
                          "GRANT " \o g[1] \o " ON users TO " \o g[2], <<"users">>) :
             g \in GrantTexts}
    \cup {NamedGrant("SELECT", "users", "app" \o o, "grant_select_on_users_to_app") :
             o \in {"", " WITH GRANT OPTION"}}

ChangedDiffInit ==
    \E old_obj, new_obj \in ChangedObjects : DiffInitWith(<<old_obj>>, <<new_obj>>)

ChangedDiffSpec == ChangedDiffInit /\ [][DiffNext]_vars

(***************************************************************************)
(* diff_sort: the result of diff_schemas handed to ASTList.sort.           *)
(***************************************************************************)
MaxDropped == 4

DropTypes == {"base_table", "function", "view"}

DropNames == {"orders", "users"}

CreateText(query_type, object_name) ==
    "CREATE " \o (CASE query_type = "base_table" -> "TABLE"
                    [] query_type = "function" -> "FUNCTION"
                    [] OTHER -> "VIEW") \o " " \o object_name

\* objects of extract_build_queries with the names their statements refer to; a
\* function and a relation may bear the same name
DropObjects ==
    {ExtractedObject(t, n, CreateText(t, n), d) :
        t \in DropTypes, n \in DropNames, d \in SeqsUpTo(DropNames, MaxDeps)}
    \cup {ASTObject("CREATE TABLE public.users", "users", "base_table", <<>>, None, "public")}

\* a schema holds a key once; the lists are taken in the order of their keys
DropLists ==
    {objects \in SeqsUpTo(DropObjects, MaxDropped) :
        \A i \in 1..(Len(objects) - 1) : KeyLess(make_key(objects[i]), make_key(objects[i + 1]))}

DropSortInit ==
    \E b \in DropLists :
        \E u \in {<<>>, <<ExtractedObject("view", "users", CreateText("view", "users"), <<>>)>>} :
            DiffInitWith(b, u)

\* diff_result.sort(): sort_queries(self.objects, use_object_names=False, grant_handling=True)
DiffResultSort ==
    /\ pc = "diff_done"
    /\ raised = None
    /\ queries' = result
    /\ use_object_names' = FALSE
    /\ grant_handling' = TRUE
    /\ pc' = "sort_call"
    /\ UNCHANGED <<node_keys, node_query, graph, in_degree, queue, sorted_keys, tail_objects,
                   diff_vars, result, raised>>

DropSortNext ==
    \/ DiffNext
    \/ DiffResultSort
    \/ SortByQueryHashBuild
    \/ Dequeue
    \/ SortByQueryHashReturn

DropSortSpec == DropSortInit /\ [][DropSortNext]_vars

(***************************************************************************)
(* Sorting the objects of a schema with its grants: a table under its      *)
(* schema, the same table without one, a table that references it, an      *)
(* ALTER action of the diff, and a grant as the parser and as extract.py   *)
(* name it.                                                                *)
(***************************************************************************)
GrantSortObjects ==
    {ParsedTable("public", "users", <<>>, <<IdColumn>>, ""),
     ParsedTable(None, "users", <<>>, <<IdColumn>>, ""),
     ParsedTable(None, "orders", <<"users">>, <<IdColumn>>, ", FOREIGN KEY (id) REFERENCES users(id)"),
     AlterObject("ALTER TABLE public.users ADD COLUMN email TEXT;",
                 ParsedTable("public", "users", <<>>, <<IdColumn, EmailColumn>>, "")),
     ParsedGrant("SELECT", "users", "app"),
     ExtractedObject("grant", "grant_on_users", "GRANT SELECT ON users TO app", <<"users">>)}

GrantSortInit ==
    \E by_name \in BOOLEAN :
        \E qs \in SeqsUpTo(GrantSortObjects, MaxLen) :
            \E gh \in (IF by_name THEN BOOLEAN ELSE {TRUE}) :
                SortInitWith(qs, by_name, gh)

GrantSortSpec == GrantSortInit /\ [][SortNext]_vars

(***************************************************************************)
(* ASTList.merge (ast_list.py and ast/list.py hold the same method).       *)
(***************************************************************************)
MaxMerge == 2

\* key = (obj.object_name, obj.query_type, obj.query_hash)
MergeKey(obj) == <<obj.object_name, obj.query_type, obj.query_hash>>

RECURSIVE DedupeLast(_)
\* a deduplication that keeps the last object of a key
DedupeLast(combined) ==
    IF combined = <<>> THEN <<>>
    ELSE LET front == SubSeq(combined, 1, Len(combined) - 1)
             obj == combined[Len(combined)]
         IN  DedupeLast(SelectSeq(front, LAMBDA o : MergeKey(o) # MergeKey(obj))) \o <<obj>>

merge_KeepLast(self, other) == DedupeLast(self \o other)

RECURSIVE Dedupe(_, _)
\* the loop over combined with the set seen (lines 28-34)
Dedupe(combined, seen) ==
    IF combined = <<>> THEN <<>>
    ELSE LET obj == Head(combined)
         IN  IF MergeKey(obj) \notin seen
             THEN <<obj>> \o Dedupe(Tail(combined), seen \cup {MergeKey(obj)})
             ELSE Dedupe(Tail(combined), seen)

merge(self, other) == Dedupe(self \o other, {})

\* objects that share a triple and differ in the command or in the schema
MergeObjects ==
    {ASTObject("sql 1", "a", "base_table", <<>>, "h1", None),
     ASTObject("sql 2", "a", "base_table", <<>>, "h1", None),
     ASTObject("sql 1", "a", "base_table", <<>>, "h1", "public"),
     ASTObject("sql 1", "a", "base_table", <<>>, "h2", None),
     ASTObject("sql 1", "b", "base_table", <<>>, "h1", None),
     ASTObject("sql 1", "a", "grant", <<"a">>, "h1", None)}

\* self in base, other in updated, a third list for a second merge in queries
MergeInit ==
    /\ pc = "merge_call"
    /\ base \in SeqsUpTo(MergeObjects, MaxMerge)
    /\ updated \in SeqsUpTo(MergeObjects, MaxMerge)
    /\ queries \in SeqsUpTo(MergeObjects, 1)
    /\ use_object_names = FALSE
    /\ grant_handling = TRUE
    /\ node_keys = <<>>
    /\ node_query = <<>>
    /\ graph = <<>>
    /\ in_degree = <<>>
    /\ queue = <<>>
    /\ sorted_keys = <<>>
    /\ tail_objects = <<>>
    /\ diff_keys = <<>>
    /\ migration_commands = <<>>
    /\ command_keys = <<>>
    /\ result = None
    /\ raised = None

\* self.merge(other)
Merge ==
    /\ pc = "merge_call"
    /\ result' = merge(base, updated)
    /\ pc' = "merge_done"
    /\ UNCHANGED <<sort_vars, diff_vars, raised>>

MergeNext == Merge

MergeSpec == MergeInit /\ [][MergeNext]_vars

(***************************************************************************)
(* One table on each side whose statements carry a table-level PRIMARY KEY *)
(* clause.                                                                 *)
(***************************************************************************)
MaxKeyCols == 2

\* the table-level clause of a key; a table without a key has none
PrimaryKeyClause(key) ==
    IF key = <<>> THEN "" ELSE ", PRIMARY KEY (" \o JoinWith(key, ", ") \o ")"

KeyColumnLists ==
    {<<IdColumn, EmailColumn>>,
     <<TableColumn("id", "TEXT", FALSE, None), EmailColumn>>,
     <<IdColumn, TableColumn("email", "TEXT", FALSE, None)>>}

\* keys over the columns id and email: none, one column, two columns
PrimaryKeys ==
    {key \in SeqsUpTo({"id", "email"}, MaxKeyCols) :
        \A i, j \in 1..Len(key) : key[i] = key[j] => i = j}

\* the object _parse_create_statement builds from a CREATE TABLE statement with a
\* key clause: the clause is part of the command and of the hash
ParsedTableWithKey(columns, key) ==
    ParsedTable(None, "users", <<>>, columns, PrimaryKeyClause(key))

KeyDiffInit ==
    \E old_columns, new_columns \in KeyColumnLists :
        \E old_key, new_key \in PrimaryKeys :
            DiffInitWith(<<ParsedTableWithKey(old_columns, old_key)>>,
                         <<ParsedTableWithKey(new_columns, new_key)>>)

KeyDiffSpec == KeyDiffInit /\ [][DiffNext]_vars

(***************************************************************************)
(* The two normalisations character by character: a command is a sequence  *)
(* of characters, "s" and "S" are a letter in both cases.                  *)
(***************************************************************************)
MaxText == 3

Whitespace == {" ", "\n"}

RECURSIVE StripLineComments(_)
\* re.sub(r'--.*$', '', sql, flags=re.MULTILINE): from "--" up to the end of the line
StripLineComments(sql) ==
    IF sql = <<>> THEN <<>>
    ELSE IF Len(sql) >= 2 /\ sql[1] = "-" /\ sql[2] = "-"
    THEN LET ends == {i \in 1..Len(sql) : sql[i] = "\n"}
         IN  IF ends = {} THEN <<>>
             ELSE LET first == CHOOSE i \in ends : \A j \in ends : i <= j
                  IN  StripLineComments(SubSeq(sql, first, Len(sql)))
    ELSE <<sql[1]>> \o StripLineComments(Tail(sql))

RECURSIVE StripBlockComments(_)
\* re.sub(r'/\*.*?\*/', '', sql, flags=re.DOTALL): from "/*" through the next "*/"
StripBlockComments(sql) ==
    IF sql = <<>> THEN <<>>
    ELSE LET closes == {i \in 3..(Len(sql) - 1) : sql[i] = "*" /\ sql[i + 1] = "/"}
         IN  IF Len(sql) >= 2 /\ sql[1] = "/" /\ sql[2] = "*" /\ closes # {}
             THEN LET first == CHOOSE i \in closes : \A j \in closes : i <= j
                  IN  StripBlockComments(SubSeq(sql, first + 2, Len(sql)))
             ELSE <<sql[1]>> \o StripBlockComments(Tail(sql))

RECURSIVE CollapseWhitespace(_)
\* re.sub(r'\s+', ' ', sql)
CollapseWhitespace(sql) ==
    IF sql = <<>> THEN <<>>
    ELSE IF sql[1] \in Whitespace
    THEN LET rest == CollapseWhitespace(Tail(sql))
         IN  IF rest # <<>> /\ rest[1] = " " THEN rest ELSE <<" ">> \o rest
    ELSE <<sql[1]>> \o CollapseWhitespace(Tail(sql))

\* re.sub(r'\s*([,()])\s*', r'\1', sql) after the whitespace is collapsed: every
\* space next to a comma or a parenthesis goes
TightenPunctuation(sql) ==
    LET punctuation == {",", "(", ")"}
        keep == IndicesWhere(Len(sql), LAMBDA i :
                    ~(/\ sql[i] = " "
                      /\ \/ (i > 1 /\ sql[i - 1] \in punctuation)
                         \/ (i < Len(sql) /\ sql[i + 1] \in punctuation)))
    IN  [k \in 1..Len(keep) |-> sql[keep[k]]]

\* str.strip() of a text whose whitespace is collapsed
Strip(sql) ==
    LET from == IF sql # <<>> /\ sql[1] = " " THEN 2 ELSE 1
        to == IF Len(sql) >= from /\ sql[Len(sql)] = " " THEN Len(sql) - 1 ELSE Len(sql)
    IN  SubSeq(sql, from, to)

\* str.upper()
Upper(sql) == [i \in 1..Len(sql) |-> IF sql[i] = "s" THEN "S" ELSE sql[i]]

\* ASTObject._normalize_sql (ast_objects.py:76-90)
ASTObjectNormalize(sql) ==
    Upper(Strip(TightenPunctuation(CollapseWhitespace(
        StripBlockComments(StripLineComments(sql))))))

\* parser.normalize_sql (parser.py:20-26)
ParserNormalize(sql) == Strip(CollapseWhitespace(StripLineComments(sql)))

\* hashlib.sha256 of a text of characters
Sha256OfText(sql) == <<"sha256", sql>>

\* a view whose command is the text sql, hashed by the ASTObject itself
\* (extract_build_queries) or by the parser (parse_sql_to_ast_objects)
ViewOfText(sql, by_parser) ==
    [ASTObject("", "users_view", "view", <<>>,
               Sha256OfText(IF by_parser THEN ParserNormalize(sql) ELSE ASTObjectNormalize(sql)),
               None)
        EXCEPT !.command = sql]

\* commands without comments: words, whitespace, commas
PlainTexts == {sql \in SeqsUpTo({"s", " ", "\n", ","}, MaxText) : \E i \in 1..Len(sql) : sql[i] = "s"}

Insert(sql, place, piece) ==
    SubSeq(sql, 1, place) \o piece \o SubSeq(sql, place + 1, Len(sql))

\* a place between two characters (0: the start) that is not inside a word
BetweenTokens(sql, place) ==
    ~(place >= 1 /\ place < Len(sql) /\ sql[place] \in {"s", "S"} /\ sql[place + 1] \in {"s", "S"})

\* the edits of a command that touch only whitespace, only comments, or only the
\* case of a letter
WhitespaceEdits(sql) ==
    {Insert(sql, place, <<w>>) :
        place \in {q \in 0..Len(sql) : BetweenTokens(sql, q)}, w \in Whitespace}
    \cup {[sql EXCEPT ![place] = w] :
            place \in {q \in 1..Len(sql) : sql[q] \in Whitespace}, w \in Whitespace}

CommentEdits(sql) ==
    {Insert(sql, place, <<"/", "*", "s", "*", "/">>) :
        place \in {q \in 0..Len(sql) : BetweenTokens(sql, q)}}
    \cup {Insert(sql, place, <<"-", "-", "s">>) :
            place \in {q \in 0..Len(sql) : q = Len(sql) \/ sql[q + 1] = "\n"}}

CaseEdits(sql) ==
    {[sql EXCEPT ![place] = "S"] : place \in {q \in 1..Len(sql) : sql[q] = "s"}}

HashDiffInit ==
    \E sql \in PlainTexts :
        \E edited \in WhitespaceEdits(sql) \cup CommentEdits(sql) \cup CaseEdits(sql) :
            \E by_parser \in BOOLEAN :
                DiffInitWith(<<ViewOfText(sql, by_parser)>>, <<ViewOfText(edited, by_parser)>>)

HashDiffSpec == HashDiffInit /\ [][DiffNext]_vars

(***************************************************************************)
(* diff_schemas of pg_compose_cli (pg_compose_cli/diff.py): the inputs are *)
(* lists of dicts, a dict is a record over the keys it holds.              *)
(***************************************************************************)
MaxDicts == 2

\* a dict as extract_build_queries of pg_compose_cli yields it
QueryDict(query_type, object_name, query_text, dependencies) ==
    [query_type |-> query_type, object_name |-> object_name, query_text |-> query_text,
     query_hash |-> Sha256(query_text), dependencies |-> dependencies]

\* obj[key] = value on a dict
SetItem(obj, key, value) ==
    [k \in DOMAIN obj \cup {key} |-> IF k = key THEN value ELSE obj[k]]

\* f"{q['query_type']}:{q['object_name']}"; the pair stands for the string, no
\* type name holds a colon
cli_key(q) == <<q.query_type, q.object_name>>

cli_map_keys(collection) == {cli_key(collection[i]) : i \in 1..Len(collection)}

\* the place in the list of the dict a map holds for a key: the last one
cli_map_place(collection, key) ==
    CHOOSE i \in 1..Len(collection) :
        /\ cli_key(collection[i]) = key
        /\ \A j \in (i + 1)..Len(collection) : cli_key(collection[j]) # key

CliTableText == "CREATE TABLE users (id integer);"

\* extract_table_definition: the column definitions of the statement
extract_table_definition(obj) ==
    IF obj.query_text = CliTableText THEN "  id INTEGER" ELSE "/* No columns found */"

\* extract_view_definition: the original statement
extract_view_definition(obj) == obj.query_text

CliViewBodies == {"users_view AS SELECT id FROM users;", "users_view AS SELECT 1;"}

\* original_sql.replace("CREATE VIEW", "CREATE OR REPLACE VIEW")
ReplaceCreateView(original_sql) ==
    IF \E body \in CliViewBodies : original_sql = "CREATE VIEW " \o body
    THEN "CREATE OR REPLACE VIEW "
            \o (CHOOSE body \in CliViewBodies : original_sql = "CREATE VIEW " \o body)
    ELSE original_sql

\* b.get("view_definition", b["query_text"])
ViewDefinitionOf(b) ==
    IF "view_definition" \in DOMAIN b THEN b.view_definition ELSE b.query_text

\* _generate_alter_commands_from_diff for the types of CliDicts; the one table
\* statement of CliDicts never differs from itself
_generate_alter_commands_from_diff(a, b) ==
    CASE a.query_type = "view" -> <<ReplaceCreateView(ViewDefinitionOf(b))>>
      [] a.query_type = "materialized_view" ->
            <<"DROP MATERIALIZED VIEW " \o a.object_name \o ";", ViewDefinitionOf(b)>>
      [] a.query_type = "function" ->
            <<"DROP FUNCTION " \o a.object_name \o ";",
              "CREATE FUNCTION " \o a.object_name \o " " \o b.query_text \o ";">>
      [] a.query_type = "grant" ->
            <<"REVOKE ALL ON " \o a.object_name \o " FROM PUBLIC;", b.query_text>>
      [] OTHER -> <<>>

IndexText(i) == CASE i = 0 -> "0" [] i = 1 -> "1" [] OTHER -> "2"

\* the ASTObject of the created, dropped or changed branch
CliASTObject(obj, command, query_hash) ==
    ASTObject(command, obj.object_name, obj.query_type, obj.dependencies, query_hash,
              IF "schema" \in DOMAIN obj THEN obj.schema ELSE None)

\* the command of the dropped branch (lines 370-384)
CliDropCommand(obj) ==
    CASE obj.query_type = "base_table" -> "DROP TABLE " \o obj.object_name \o ";"
      [] obj.query_type = "view" -> "DROP VIEW " \o obj.object_name \o ";"
      [] obj.query_type = "materialized_view" ->
            "DROP MATERIALIZED VIEW " \o obj.object_name \o ";"
      [] obj.query_type = "function" -> "DROP FUNCTION " \o obj.object_name \o ";"
      [] obj.query_type = "index" -> "DROP INDEX " \o obj.object_name \o ";"
      [] OTHER -> "DROP " \o UpperTypeName(obj.query_type) \o " " \o obj.object_name \o ";"

\* a created object after lines 352-357: the definition is stored in the dict
\* of the updated list itself
CliCreated(obj) ==
    IF obj.query_type = "base_table"
    THEN SetItem(obj, "table_definition", extract_table_definition(obj))
    ELSE IF obj.query_type \in {"view", "materialized_view"}
    THEN SetItem(obj, "view_definition", extract_view_definition(obj))
    ELSE obj

RECURSIVE CliDiffLoop(_, _, _, _)
\* the loop over sorted(all_keys) (lines 349-422): the ast_objects appended and the
\* updated list as the loop leaves it
CliDiffLoop(b, u, keys, acc) ==
    IF keys = <<>> THEN [ast_objects |-> acc, updated |-> u]
    ELSE LET key == Head(keys)
         IN  IF key \notin cli_map_keys(b)
             THEN LET place == cli_map_place(u, key)
                      obj == CliCreated(u[place])
                  IN  CliDiffLoop(b, [u EXCEPT ![place] = obj], Tail(keys),
                                  Append(acc, CliASTObject(obj, obj.query_text, obj.query_hash)))
             ELSE IF key \notin cli_map_keys(u)
             THEN LET obj == b[cli_map_place(b, key)]
                  IN  IF obj.query_type = "grant"
                      THEN CliDiffLoop(b, u, Tail(keys), acc)
                      ELSE CliDiffLoop(b, u, Tail(keys),
                                       Append(acc, CliASTObject(obj, CliDropCommand(obj),
                                                                obj.query_hash)))
             ELSE LET a == b[cli_map_place(b, key)]
                      n == u[cli_map_place(u, key)]
                      alter_commands == _generate_alter_commands_from_diff(a, n)
                  IN  IF a.query_hash # n.query_hash
                      THEN CliDiffLoop(b, u, Tail(keys),
                               acc \o [i \in 1..Len(alter_commands) |->
                                         CliASTObject(a, alter_commands[i],
                                             Sha256(a.query_hash \o "_" \o IndexText(i - 1)
                                                    \o "_" \o alter_commands[i]))])
                      ELSE CliDiffLoop(b, u, Tail(keys), acc)

cli_diff_schemas(b, u) ==
    CliDiffLoop(b, u, SortedKeys(cli_map_keys(b) \cup cli_map_keys(u)), <<>>)

CliDicts ==
    {QueryDict("base_table", "users", CliTableText, <<>>),
     QueryDict("grant", "grant_on_users", "GRANT SELECT ON users TO app;", <<"users">>),
     QueryDict("grant", "grant_on_users", "GRANT ALL ON users TO app;", <<"users">>),
     QueryDict("sequence", "users_seq", "CREATE SEQUENCE users_seq;", <<>>)}
    \cup {QueryDict("view", "users_view", "CREATE VIEW " \o body, <<"users">>) :
            body \in CliViewBodies}

CliDiffInit ==
    /\ pc = "cli_diff_call"
    /\ base \in SeqsUpTo(CliDicts, MaxDicts)
    /\ updated \in SeqsUpTo(CliDicts, MaxDicts)
    /\ queries = <<>>
    /\ use_object_names = FALSE
    /\ grant_handling = TRUE
    /\ node_keys = <<>>
    /\ node_query = <<>>
    /\ graph = <<>>
    /\ in_degree = <<>>
    /\ queue = <<>>
    /\ sorted_keys = <<>>
    /\ tail_objects = <<>>
    /\ diff_keys = <<>>
    /\ migration_commands = <<>>
    /\ command_keys = <<>>
    /\ result = None
    /\ raised = None

\* diff_schemas(base, updated) of pg_compose_cli: the call returns the list and
\* leaves the updated list as its loop wrote it
CliDiffSchemas ==
    /\ pc = "cli_diff_call"
    /\ LET outcome == cli_diff_schemas(base, updated)
       IN  /\ result' = outcome.ast_objects
           /\ updated' = outcome.updated
    /\ pc' = "cli_diff_done"
    /\ UNCHANGED <<sort_vars, base, diff_keys, migration_commands, command_keys, raised>>

CliDiffNext == CliDiffSchemas

CliDiffSpec == CliDiffInit /\ [][CliDiffNext]_vars

(***************************************************************************)
(* Claims about diff_schemas.                                              *)
(***************************************************************************)
\* The identity of an object as the specification defines it: its queryType and
\* its qualifiedName (schema.objectName when a schema is set).
QualifiedNameOf(o) ==
    IF o.schema # None THEN o.schema \o "." \o o.object_name ELSE o.object_name

ObjectKey(o) == <<o.query_type, QualifiedNameOf(o)>>

KeysOf(collection) == {ObjectKey(collection[i]) : i \in 1..Len(collection)}

ObjectsOf(collection, key) ==
    {collection[i] : i \in {j \in 1..Len(collection) : ObjectKey(collection[j]) = key}}

\* the loop has had its turn for key
Handled(key) ==
    /\ pc \in {"diff_loop", "diff_done"}
    /\ key \in KeysOf(base) \cup KeysOf(updated)
    /\ key \notin Range(diff_keys)

\* the places of the commands emitted in the turn of key
EmittedFor(key) == {i \in 1..Len(command_keys) : command_keys[i] = key}

DiffReturned == pc = "diff_done" /\ raised = None

\* C4: diff_schemas(X, X) returns an empty list for every collection X, also
\* when several actions of X share one (queryType, qualifiedName) key.
C4_Idempotence ==
    (pc = "diff_done" /\ base = updated) => (raised = None /\ result = <<>>)

C4_Witness ==
    /\ DiffReturned
    /\ base = updated
    /\ result = <<>>
    /\ \E i, j \in 1..Len(base) :
          ObjectKey(base[i]) = ObjectKey(base[j]) /\ base[i].query_hash # base[j].query_hash

\* C5: two actions are the same object iff queryType and qualifiedName both
\* match: for one table on each side with the same objectName, a differing
\* schema yields exactly the create of the updated table and the DROP TABLE of
\* the base table (no ALTER); an equal schema yields neither of the two.
DropTableText(o) == "DROP TABLE " \o QualifiedNameOf(o) \o ";"

CommandsOf(list) == {list[i].command : i \in 1..Len(list)}

C5_SchemaIdentity ==
    (/\ DiffReturned
     /\ Len(base) = 1 /\ Len(updated) = 1
     /\ base[1].query_type = "base_table" /\ updated[1].query_type = "base_table"
     /\ base[1].object_name = updated[1].object_name)
    => IF base[1].schema # updated[1].schema
       THEN /\ Len(result) = 2
            /\ updated[1] \in Range(result)
            /\ DropTableText(base[1]) \in CommandsOf(result)
       ELSE /\ updated[1] \notin Range(result)
            /\ DropTableText(base[1]) \notin CommandsOf(result)

C5_Witness ==
    /\ DiffReturned
    /\ Len(base) = 1 /\ Len(updated) = 1
    /\ QualifiedNameOf(base[1]) = "public.users"
    /\ QualifiedNameOf(updated[1]) = "private.users"
    /\ CommandsOf(result) = {updated[1].command, "DROP TABLE public.users;"}

LastOf(collection, key) ==
    collection[CHOOSE i \in 1..Len(collection) :
                  /\ ObjectKey(collection[i]) = key
                  /\ \A j \in (i + 1)..Len(collection) : ObjectKey(collection[j]) # key]

\* C7: when diff_schemas ends, every key present in base and absent from
\* updated has exactly one action, a drop built for it, and every key present
\* on both sides with equal contentHash has none.
C7_DropAndUnchanged ==
    pc = "diff_done" =>
        /\ \A key \in KeysOf(base) \ KeysOf(updated) :
              /\ raised = None
              /\ Cardinality(EmittedFor(key)) = 1
              /\ \A i \in EmittedFor(key) : result[i] \notin Range(base)
        /\ \A key \in KeysOf(base) \cap KeysOf(updated) :
              LastOf(base, key).query_hash = LastOf(updated, key).query_hash
                  => EmittedFor(key) = {}

\* the keys a returned list creates and drops; a call that raises returns none
CreatedKeys(run, b, u) ==
    IF run.exc # None THEN {}
    ELSE {run.keys[i] : i \in {j \in 1..Len(run.keys) : run.keys[j] \in KeysOf(u) \ KeysOf(b)}}

DroppedKeys(run, b, u) ==
    IF run.exc # None THEN {}
    ELSE {run.keys[i] : i \in {j \in 1..Len(run.keys) : run.keys[j] \in KeysOf(b) \ KeysOf(u)}}

NoKeyChanged(b, u) ==
    \A key \in KeysOf(b) \cap KeysOf(u) :
        LastOf(b, key).query_hash = LastOf(u, key).query_hash

ThisRun == [exc |-> raised, cmds |-> migration_commands, keys |-> command_keys]

\* C8: for collections that differ only by added and removed keys, the creates
\* of diff(base, updated) are the drops of diff(updated, base) key by key, and
\* its drops are the creates of the reverse diff, grants included; each side
\* covers every added and every removed key.
C8_CreateDropSymmetry ==
    (pc = "diff_done" /\ NoKeyChanged(base, updated)) =>
        LET reverse == diff_schemas(updated, base)
        IN  /\ CreatedKeys(ThisRun, base, updated) = DroppedKeys(reverse, updated, base)
            /\ DroppedKeys(ThisRun, base, updated) = CreatedKeys(reverse, updated, base)
            /\ CreatedKeys(ThisRun, base, updated) = KeysOf(updated) \ KeysOf(base)
            /\ DroppedKeys(ThisRun, base, updated) = KeysOf(base) \ KeysOf(updated)


(***************************************************************************)
(* Claims about one changed table.                                         *)
(***************************************************************************)
OneOnEachSide(query_type) ==
    /\ Len(base) = 1 /\ Len(updated) = 1
    /\ base[1].query_type = query_type /\ updated[1].query_type = query_type
    /\ ObjectKey(base[1]) = ObjectKey(updated[1])
    /\ base[1].query_hash # updated[1].query_hash

ResultTexts == [i \in 1..Len(result) |-> result[i].command]

NamesIn(table) == {table.columns[i].name : i \in 1..Len(table.columns)}

ColumnNamed(table, name) == CHOOSE c \in Range(table.columns) : c.name = name

ChangedNames(old, new) ==
    {n \in NamesIn(old) \cap NamesIn(new) :
        \/ ColumnNamed(old, n).data_type # ColumnNamed(new, n).data_type
        \/ ColumnNamed(old, n).is_nullable # ColumnNamed(new, n).is_nullable
        \/ ColumnNamed(old, n).default # ColumnNamed(new, n).default}

AlterTable(table) == "ALTER TABLE " \o QualifiedNameOf(table) \o " "

AddColumnText(table, c) ==
    AlterTable(table) \o "ADD COLUMN " \o c.name \o " " \o c.data_type
    \o (IF c.is_nullable THEN "" ELSE " NOT NULL")
    \o (IF c.default = None THEN "" ELSE " DEFAULT " \o c.default) \o ";"

DropColumnText(table, c) == AlterTable(table) \o "DROP COLUMN " \o c.name \o ";"

\* the statements of one changed column: type, then nullability, then default
ChangedColumnTexts(table, old_c, new_c) ==
    LET column == AlterTable(table) \o "ALTER COLUMN " \o new_c.name \o " "
    IN  (IF old_c.data_type = new_c.data_type THEN <<>>
         ELSE <<column \o "TYPE " \o new_c.data_type \o ";">>)
        \o (IF old_c.is_nullable = new_c.is_nullable THEN <<>>
            ELSE IF new_c.is_nullable THEN <<column \o "DROP NOT NULL;">>
            ELSE <<column \o "SET NOT NULL;">>)
        \o (IF old_c.default = new_c.default THEN <<>>
            ELSE IF new_c.default = None THEN <<column \o "DROP DEFAULT;">>
            ELSE <<column \o "SET DEFAULT " \o new_c.default \o ";">>)

TypesOf(function) == [i \in 1..Len(function.parameters) |-> function.parameters[i].data_type]

NamesAndModesOf(function) ==
    [i \in 1..Len(function.parameters) |->
        <<function.parameters[i].name, function.parameters[i].mode>>]

DropFunctionText(function) ==
    "DROP FUNCTION " \o QualifiedNameOf(function)
    \o (IF function.parameters = <<>> THEN "" ELSE "(" \o JoinWith(TypesOf(function), ", ") \o ")")
    \o ";"

SameInterface(old, new) ==
    /\ TypesOf(old) = TypesOf(new)
    /\ old.return_type = new.return_type
    /\ old.language = new.language

ReplacedOnly == result = <<updated[1]>>

DroppedAndCreated ==
    /\ Len(result) = 2
    /\ result[1].command = DropFunctionText(base[1])
    /\ result[2] = updated[1]

BothRecorded == base[1].kind = "FunctionASTObject" /\ updated[1].kind = "FunctionASTObject"

GrantDetail(command) ==
    CHOOSE g \in GrantTexts \cup {<<"SELECT", "app WITH GRANT OPTION">>} :
        command = "GRANT " \o g[1] \o " ON users TO " \o g[2]

PrivilegesOf(command) == GrantDetail(command)[1]

GranteeOf(command) ==
    IF GrantDetail(command)[2] = "app WITH GRANT OPTION" THEN "app" ELSE GrantDetail(command)[2]

\* the REVOKE of a grant's privileges and grantee, in the case of the statement
\* or in lower case
RevokeTexts(command) ==
    LET lower(x) == CASE x = "SELECT" -> "select" [] x = "SELECT, INSERT" -> "select, insert"
                      [] OTHER -> x
    IN  {"REVOKE " \o pr \o " ON users FROM " \o GranteeOf(command) \o semi :
            pr \in {PrivilegesOf(command), lower(PrivilegesOf(command))}, semi \in {"", ";"}}

GrantDiffers ==
    \/ PrivilegesOf(base[1].command) # PrivilegesOf(updated[1].command)
    \/ GranteeOf(base[1].command) # GranteeOf(updated[1].command)

\* C11: for a grant on both sides whose privileges or grantees differ,
\* diff_schemas emits exactly two actions: the REVOKE of the old grant's
\* privileges and grantees, then the updated GRANT.
C11_GrantRevokeThenGrant ==
    (pc = "diff_done" /\ OneOnEachSide("grant") /\ GrantDiffers) =>
        /\ raised = None
        /\ Len(result) = 2
        /\ result[1].command \in RevokeTexts(base[1].command)
        /\ result[2] = updated[1]

\* C12: for a view on both sides with differing contentHash, diff_schemas emits
\* exactly one action, the updated definition with CREATE OR REPLACE VIEW in
\* place of its leading CREATE VIEW, and no DROP VIEW.
C12_ViewOrReplace ==
    (pc = "diff_done" /\ OneOnEachSide("view")) =>
        /\ raised = None
        /\ Len(result) = 1
        /\ \E t \in {"users", "orders"} :
              /\ updated[1].command = "CREATE VIEW " \o ViewBody(updated[1].object_name, t)
              /\ result[1].command
                    = "CREATE OR REPLACE VIEW " \o ViewBody(updated[1].object_name, t)

InPlaceTypes == {"base_table", "view", "function", "procedure", "grant"}

\* the drop statement of the specification's table for the other kinds
FallbackDropText(o) ==
    CASE o.query_type = "materialized_view" -> "DROP MATERIALIZED VIEW " \o QualifiedNameOf(o) \o ";"
      [] o.query_type = "index" -> "DROP INDEX " \o QualifiedNameOf(o) \o ";"
      [] o.query_type = "constraint" ->
            "ALTER TABLE " \o o.dependencies[1] \o " DROP CONSTRAINT " \o o.object_name \o ";"
      [] o.query_type = "policy" ->
            "DROP POLICY " \o o.object_name \o " ON " \o o.dependencies[1] \o ";"
      [] o.query_type = "trigger" -> "DROP TRIGGER " \o QualifiedNameOf(o) \o ";"
      [] o.query_type = "sequence" -> "DROP SEQUENCE " \o QualifiedNameOf(o) \o ";"
      [] OTHER -> "DROP UNKNOWN " \o QualifiedNameOf(o) \o ";"

\* C13: for a key on both sides with differing contentHash whose queryType has
\* no in-place strategy, diff_schemas emits the drop of the old object and then
\* the updated action, never nothing.
C13_FallbackDropCreate ==
    (/\ pc = "diff_done"
     /\ Len(base) = 1 /\ Len(updated) = 1
     /\ base[1].query_type \notin InPlaceTypes
     /\ OneOnEachSide(base[1].query_type))
    => /\ raised = None
       /\ Len(result) = 2
       /\ result[1].command = FallbackDropText(base[1])
       /\ result[2] = updated[1]

\* C14: diff_schemas never raises because of a single object: every key gets
\* its turn and the list is returned.
C14_NeverRaises ==
    pc = "diff_done" =>
        /\ raised = None
        /\ \A key \in KeysOf(base) \cup KeysOf(updated) : Handled(key)


(***************************************************************************)
(* Claims about the sorter and grants.                                     *)
(***************************************************************************)
\* action b belongs to the object grant g applies to: g's dependency names it by
\* its qualified name or by its plain name
AppliesTo(g, b) ==
    /\ g.query_type = "grant"
    /\ b.query_type # "grant"
    /\ \E d \in Range(g.dependencies) : d = QualifiedNameOf(b) \/ d = b.object_name

\* C15: in the output of a sort with grant handling, every grant stands after
\* every action of the object it applies to, also when the grant names the
\* target by its plain name and the target's key is schema-qualified.
C15_GrantAfterTarget ==
    (SortReturned /\ grant_handling) =>
        \A i, j \in 1..Len(result) : AppliesTo(result[i], result[j]) => j < i

\* the same statement for ASTList.sort (the by-hash mode) alone
C15_ByHashOnly == ~use_object_names => C15_GrantAfterTarget


\* the words of an error message
ErrorWords(message) ==
    IF message = CyclicDependency
    THEN {"ValueError:", "Cyclic", "dependency", "detected"}
    ELSE {}

\* C16: when sort cannot order the whole graph, the cycle error names every node
\* whose in-degree never reached zero, and no list is returned.
C16_CycleErrorNamesNodes ==
    (pc = "sort_done" /\ Len(sorted_keys) # Len(node_keys)) =>
        /\ raised # None
        /\ result = None
        /\ \A n \in Range(node_keys) \ Range(sorted_keys) : n \in ErrorWords(raised)

\* the part of C16 the sorter keeps: the error is raised and nothing is returned
C16_RaisedOnly ==
    (pc = "sort_done" /\ Len(sorted_keys) # Len(node_keys)) =>
        (raised = CyclicDependency /\ result = None)

(***************************************************************************)
(* Claims about ASTList.merge.                                             *)
(***************************************************************************)
TripleOf(o) == <<o.object_name, o.query_type, o.query_hash>>

\* the places of a list whose triple does not occur before them
FirstPlaces(list) ==
    IndicesWhere(Len(list), LAMBDA i : \A j \in 1..(i - 1) : TripleOf(list[j]) # TripleOf(list[i]))

\* C17: merge(A, B) is the concatenation of A and B without every action whose
\* (object_name, query_type, query_hash) triple occurred earlier: no triple
\* twice, the first occurrence kept, the concatenation order kept; merge is
\* associative and merging B once more changes nothing.
C17_MergeDedup ==
    pc = "merge_done" =>
        LET combined == base \o updated
            places == FirstPlaces(combined)
        IN  /\ result = [k \in 1..Len(places) |-> combined[places[k]]]
            /\ \A i, j \in 1..Len(result) : TripleOf(result[i]) = TripleOf(result[j]) => i = j
            /\ merge(result, queries) = merge(base, merge(updated, queries))
            /\ merge(result, updated) = result

\* other holds an action with the triple of an action of self and another command
C17_Witness ==
    /\ pc = "merge_done"
    /\ Len(result) < Len(base) + Len(updated)
    /\ \E i \in 1..Len(base), j \in 1..Len(updated) :
          /\ TripleOf(base[i]) = TripleOf(updated[j])
          /\ base[i] # updated[j]
          /\ base[i] \in Range(result)
          /\ updated[j] \notin Range(result)
    /\ queries # <<>>


(***************************************************************************)
(* Claims about the content hash.                                          *)
(***************************************************************************)
OneEditApart ==
    /\ Len(base) = 1 /\ Len(updated) = 1
    /\ updated[1].command \in WhitespaceEdits(base[1].command)
                              \cup CommentEdits(base[1].command)
                              \cup CaseEdits(base[1].command)

\* C18: two commands that differ only in whitespace, in comments (-- and /* */)
\* or in the case of a keyword get equal content hashes, from ASTObject and
\* from the parser's normalize_sql alike, and diff emits nothing for them.
C18_HashStability ==
    OneEditApart =>
        /\ base[1].query_hash = updated[1].query_hash
        /\ pc = "diff_done" => (raised = None /\ result = <<>>)

\* the same statement for the hashes ASTObject computes itself
C18_ASTObjectOnly ==
    (/\ OneEditApart
     /\ \A obj \in {base[1], updated[1]} :
            obj.query_hash = Sha256OfText(ASTObjectNormalize(obj.command)))
        => C18_HashStability


(***************************************************************************)
(* Claims about the inputs of the operations.                              *)
(***************************************************************************)
\* C19: diff_schemas, sort_queries and ASTList.merge leave their inputs unchanged:
\* across every step of a call each input collection holds the same elements in
\* the same order, and each input action has the fields and values it had.
C19_InputsUnchanged ==
    [][base' = base /\ updated' = updated /\ queries' = queries]_vars


(***************************************************************************)
(* Claims about the order of the sorter's output.                          *)
(***************************************************************************)
\* in_degree as the build leaves it, before the loop counts it down
BuiltInDegree ==
    IF use_object_names THEN NameInDegree(queries, grant_handling) ELSE HashInDegree(queries)

RECURSIVE InputOrderRun(_, _, _)
\* the keys the loop appends when every neighbor set is visited in the order of
\* the input list
InputOrderRun(q, deg, acc) ==
    IF q = <<>> THEN acc
    ELSE LET current == Head(q)
             neighbors == graph[current]
             ready == IndicesWhere(Len(node_keys),
                          LAMBDA i : node_keys[i] \in neighbors /\ deg[node_keys[i]] - 1 = 0)
         IN  InputOrderRun(Tail(q) \o [k \in 1..Len(ready) |-> node_keys[ready[k]]],
                           [n \in DOMAIN deg |-> IF n \in neighbors THEN deg[n] - 1 ELSE deg[n]],
                           Append(acc, current))

\* C20: sort is deterministic: the order sort_queries returns is a function of the
\* input list; nodes that become ready at the same dequeue step are appended in
\* an order the input fixes (the order of the input list), whatever order the
\* neighbor set is iterated in.
C20_SortDeterministic ==
    SortReturned =>
        sorted_keys = InputOrderRun(InitialQueue(node_keys, BuiltInDegree), BuiltInDegree, <<>>)

\* the part of the statement about the error: whether the call raises is fixed
\* by the input
C20_RaiseDeterministic ==
    pc = "sort_done" =>
        ((raised = CyclicDependency)
            <=> Len(InputOrderRun(InitialQueue(node_keys, BuiltInDegree), BuiltInDegree, <<>>))
                    # Len(node_keys))


(***************************************************************************)
(* Claims about the primary key of a changed table.                        *)
(***************************************************************************)
\* the key of a table of KeyDiffSpec, read from its statement
PrimaryKeyOf(table) ==
    CHOOSE key \in PrimaryKeys :
        \E columns \in KeyColumnLists : table = ParsedTableWithKey(columns, key)

IsKeyedTable(table) ==
    \E key \in PrimaryKeys :
        \E columns \in KeyColumnLists : table = ParsedTableWithKey(columns, key)

PlacesOf(texts, wanted) == {i \in 1..Len(texts) : texts[i] \in wanted}

\* the forms of the statement that drops the old key of a table: by the name
\* PostgreSQL gives an unnamed key, or by its column list
DropKeyTexts(table) ==
    {AlterTable(table) \o "DROP CONSTRAINT " \o table.object_name \o "_pkey;",
     AlterTable(table) \o "DROP CONSTRAINT " \o JoinWith(PrimaryKeyOf(table), ", ") \o ";"}

AddKeyText(table) ==
    AlterTable(table) \o "ADD PRIMARY KEY (" \o JoinWith(PrimaryKeyOf(table), ", ") \o ");"

\* C21: for a base_table on both sides whose primary-key column sets differ, the
\* result holds DROP CONSTRAINT for the old key when there was one, and after it
\* ADD PRIMARY KEY (<cols>) when there is a new one, whatever the column-level
\* statements are.
C21_PrimaryKeyDiff ==
    (/\ DiffReturned
     /\ OneOnEachSide("base_table")
     /\ IsKeyedTable(base[1]) /\ IsKeyedTable(updated[1])
     /\ Range(PrimaryKeyOf(base[1])) # Range(PrimaryKeyOf(updated[1]))) =>
        LET drops == PlacesOf(ResultTexts, DropKeyTexts(base[1]))
            adds == PlacesOf(ResultTexts, {AddKeyText(updated[1])})
        IN  /\ PrimaryKeyOf(base[1]) # <<>> => drops # {}
            /\ PrimaryKeyOf(updated[1]) # <<>> => adds # {}
            /\ \A d \in drops, a \in adds : d < a

\* what the code does for such a pair: column-level statements only
C21_ColumnStatementsOnly ==
    (/\ DiffReturned
     /\ OneOnEachSide("base_table")
     /\ IsKeyedTable(base[1]) /\ IsKeyedTable(updated[1])) =>
        \A i \in 1..Len(result) :
            \E c \in Range(updated[1].columns) :
                \E old_c \in Range(base[1].columns) :
                    result[i].command \in Range(ChangedColumnTexts(updated[1], old_c, c))


(***************************************************************************)
(* Claims about the end of a sort_queries call.                            *)
(***************************************************************************)
NoKeyTwice(keys) == \A i, j \in 1..Len(keys) : keys[i] = keys[j] => i = j

SortEnded ==
    /\ pc = "sort_done"
    /\ \/ raised = None /\ result # None
       \/ raised = CyclicDependency /\ result = None

\* C22: every call of sort_queries terminates: the loop dequeues each node at most
\* once, and the call ends by returning a list or by raising the cycle error.
C22_Termination == [](NoKeyTwice(sorted_keys) /\ NoKeyTwice(queue)) /\ <>SortEnded

C22_Witness ==
    /\ SortReturned
    /\ Len(sorted_keys) >= 2
    /\ \E n \in DOMAIN graph : graph[n] # {}


\* every step of a call shows on pc and sorted_keys as Proceeds says
C22_ProceedsCoversNext == [][SortNext => Proceeds]_vars


(***************************************************************************)
(* Claims that compare the outcome of sort_queries on two inputs.          *)
(***************************************************************************)
RECURSIVE KahnRuns(_, _, _, _)
\* every list of keys the loop can build from a queue and the in-degrees, over
\* all orders in which a neighbor set can be iterated
KahnRuns(g, q, deg, acc) ==
    IF q = <<>> THEN {acc}
    ELSE LET current == Head(q)
             neighbors == g[current]
             ready == {n \in neighbors : deg[n] - 1 = 0}
             counted == [n \in DOMAIN deg |-> IF n \in neighbors THEN deg[n] - 1 ELSE deg[n]]
         IN  UNION {KahnRuns(g, Tail(q) \o visit, counted, Append(acc, current)) :
                        visit \in Orders(ready)}

\* the outcomes of sort_queries(qs, use_object_names, grant_handling): the keys in
\* the order of the returned list, or the cycle error
SortOutcomes(qs) ==
    LET keys == IF use_object_names THEN DictKeys(qs, _get_object_name)
                ELSE DictKeys(other_objects(qs), _get_query_hash)
        g == IF use_object_names THEN NameGraph(qs, grant_handling) ELSE HashGraph(qs)
        deg == IF use_object_names THEN NameInDegree(qs, grant_handling) ELSE HashInDegree(qs)
    IN  {IF Len(run) # Len(keys) THEN <<"raised", CyclicDependency>> ELSE <<"returned", run>> :
            run \in KahnRuns(g, InitialQueue(keys, deg), deg, <<>>)}

\* the outcome of the call that ended
SortOutcome ==
    IF raised # None THEN <<"raised", raised>> ELSE <<"returned", sorted_keys>>

NamesOfList(qs) == {_get_object_name(qs[i]) : i \in 1..Len(qs)} \ {None, ""}

\* the list with every dependency name that matches no action removed
WithoutAbsentNames(qs) ==
    [i \in 1..Len(qs) |->
        [qs[i] EXCEPT !.dependencies = SelectSeq(@, LAMBDA d : d \in NamesOfList(qs))]]

NamesAbsentName(qs) ==
    \E i \in 1..Len(qs) : \E d \in Range(qs[i].dependencies) : d \notin NamesOfList(qs)

\* C23: a dependency name that matches no action of the list has no effect on
\* sort: the outcome of the call (the order, or the cycle error) is an outcome of
\* the call on the list with all such names removed, in every mode, with grant
\* handling on or off.
C23_AbsentNamesIgnored ==
    (pc = "sort_done" /\ NamesAbsentName(queries)) =>
        SortOutcome \in SortOutcomes(WithoutAbsentNames(queries))

\* the same statement where no grant of the list is involved with grant handling on
C23_WithoutGrantHandling ==
    (use_object_names /\ grant_handling
        /\ \E i \in 1..Len(queries) : queries[i].query_type = "grant")
    \/ C23_AbsentNamesIgnored


(***************************************************************************)
(* Claims about actions without a name.                                    *)
(***************************************************************************)
Unnamed(q) == ~Truthy(_get_object_name(q))

UnnamedOf(qs) == SelectSeq(qs, Unnamed)

NamedOf(qs) == SelectSeq(qs, LAMBDA q : ~Unnamed(q))

\* C24: actions without a resolvable name stand after all named actions in the
\* output of sort, in their original relative order, and neither cause nor take
\* part in a cycle error: a call that raises also raises on the named actions
\* alone.  In the by-name mode and in the by-hash mode.
C24_UnnamedLast ==
    /\ SortReturned =>
          /\ \A i, j \in 1..Len(result) :
                (Unnamed(result[i]) /\ ~Unnamed(result[j])) => j < i
          /\ UnnamedOf(result) = UnnamedOf(queries)
    /\ (pc = "sort_done" /\ raised = CyclicDependency) =>
          <<"raised", CyclicDependency>> \in SortOutcomes(NamedOf(queries))

\* the same statement for the by-name mode alone
C24_ByNameOnly == use_object_names => C24_UnnamedLast


(***************************************************************************)
(* Claims about the order of independent actions.                          *)
(***************************************************************************)
\* q depends on no action of the list
Independent(q, qs) == \A d \in Range(q.dependencies) : d \notin NamesOfList(qs)

PlaceIn(s, x) == CHOOSE i \in 1..Len(s) : s[i] = x

\* C25: two actions that depend on no action of the list are emitted in their
\* input order, whatever their names, hashes and query types are.
C25_IndependentKeepOrder ==
    SortReturned =>
        \A i, j \in 1..Len(queries) :
            (/\ i < j
             /\ Independent(queries[i], queries) /\ Independent(queries[j], queries)
             /\ Count(queries, queries[i]) = 1 /\ Count(queries, queries[j]) = 1
             /\ Count(result, queries[i]) = 1 /\ Count(result, queries[j]) = 1) =>
                PlaceIn(result, queries[i]) < PlaceIn(result, queries[j])

\* the same statement for the by-name mode on lists whose actions have names of
\* their own and no dependencies outside the list
C25_ByNameDistinctNames ==
    (/\ use_object_names
     /\ \A i, j \in 1..Len(queries) :
            qualified_name(queries[i]) = qualified_name(queries[j]) => i = j
     /\ \A i \in 1..Len(queries) :
            Truthy(qualified_name(queries[i]))
            /\ (Independent(queries[i], queries) => queries[i].dependencies = <<>>)) =>
        C25_IndependentKeepOrder


(***************************************************************************)
(* Claims about the drop of a constraint and of a policy.                  *)
(***************************************************************************)
OnlyInBase(obj) == obj \in Range(base) /\ ObjectKey(obj) \notin KeysOf(updated)

\* the table a constraint or a policy belongs to: the object its dependencies name
TableOf(obj) == obj.dependencies[1]

DropConstraintText(obj) ==
    "ALTER TABLE " \o TableOf(obj) \o " DROP CONSTRAINT " \o obj.object_name \o ";"

DropPolicyText(obj) ==
    "DROP POLICY " \o obj.object_name \o " ON " \o TableOf(obj) \o ";"

\* C26: for a constraint present only in base the drop is ALTER TABLE <table> DROP
\* CONSTRAINT <name>, for a policy DROP POLICY <name> ON <table>, where <table>
\* is the table named in the dependencies, never the object's own name.
C26_DropNamesTable ==
    DiffReturned =>
        \A i \in 1..Len(base) :
            /\ (base[i].query_type = "constraint" /\ OnlyInBase(base[i])) =>
                  DropConstraintText(base[i]) \in Range(ResultTexts)
            /\ (base[i].query_type = "policy" /\ OnlyInBase(base[i])) =>
                  DropPolicyText(base[i]) \in Range(ResultTexts)

\* what the code emits: the object's own name in the place of the table
C26_DropNamesItself ==
    DiffReturned =>
        \A i \in 1..Len(base) :
            /\ (base[i].query_type = "constraint" /\ OnlyInBase(base[i])) =>
                  ("ALTER TABLE " \o base[i].object_name \o " DROP CONSTRAINT "
                      \o base[i].object_name \o ";") \in Range(ResultTexts)
            /\ (base[i].query_type = "policy" /\ OnlyInBase(base[i])) =>
                  ("DROP POLICY " \o base[i].object_name \o " ON "
                      \o base[i].object_name \o ";") \in Range(ResultTexts)


(***************************************************************************)
(* Claims about the drop of a procedure.                                   *)
(***************************************************************************)
DropProcedureText(procedure) ==
    "DROP PROCEDURE " \o QualifiedNameOf(procedure)
    \o "(" \o JoinWith(TypesOf(procedure), ", ") \o ")" \o ";"

\* the procedure of base is dropped: it is absent from updated or its signature differs
ProcedureDropped ==
    \/ updated = <<>>
    \/ Len(updated) = 1 /\ base[1].query_hash # updated[1].query_hash
       /\ ~SameInterface(base[1], updated[1])

\* C27: an action built from a CREATE PROCEDURE statement keeps the query type
\* procedure, is keyed as a procedure, and when it is dropped (present only in
\* base, or its signature changed) the drop is DROP PROCEDURE with the qualified
\* name and the parenthesised list of the old parameter types.
C27_ProcedureDrop ==
    (Len(base) = 1 /\ base[1] \in ProcedureObjects) =>
        /\ base[1].query_type = "procedure"
        /\ make_key(base[1])[1] = "procedure"
        /\ (DiffReturned /\ ProcedureDropped) =>
              DropProcedureText(base[1]) \in Range(ResultTexts)

\* what the code does with a dropped procedure: it drops a function
C27_DroppedAsFunction ==
    (Len(base) = 1 /\ base[1] \in ProcedureObjects) =>
        /\ base[1].query_type = "function"
        /\ (DiffReturned /\ ProcedureDropped) =>
              DropFunctionText(base[1]) \in Range(ResultTexts)


(***************************************************************************)
(* The cycle error and the dependency relation of the input.               *)
(***************************************************************************)
\* the action at place i names the action at another place j
DependsOn(qs, i, j) == i # j /\ Names(qs[i], qs[j])

\* the dependency relation between distinct actions of the list has a directed cycle
HasCycle(qs) ==
    \E S \in SUBSET (1..Len(qs)) :
        /\ Cardinality(S) >= 2
        /\ \E p \in Orders(S) :
              /\ \A k \in 1..(Len(p) - 1) : DependsOn(qs, p[k], p[k + 1])
              /\ DependsOn(qs, p[Len(p)], p[1])

NamesItself(q) == Truthy(qualified_name(q)) /\ qualified_name(q) \in Range(q.dependencies)

SharesName(qs) ==
    \E i, j \in 1..Len(qs) :
        i # j /\ Truthy(qualified_name(qs[i])) /\ qualified_name(qs[i]) = qualified_name(qs[j])

RepeatsDependency(q) ==
    \E i, j \in 1..Len(q.dependencies) : i # j /\ q.dependencies[i] = q.dependencies[j]

\* C28: sort_queries raises the cycle error only when the dependency relation
\* between distinct actions of the input contains a directed cycle: an acyclic
\* input is sorted, also when an action names itself or two actions share a
\* name or a hash.
C28_CycleErrorOnlyOnCycle ==
    (pc = "sort_done" /\ raised = CyclicDependency) => HasCycle(queries)

\* The same statement for the by-name mode without grant handling on inputs
\* where no action names itself, no name is shared and no dependency repeats.
C28_PlainInputsOnly ==
    (/\ use_object_names /\ ~grant_handling
     /\ ~SharesName(queries)
     /\ \A i \in 1..Len(queries) : ~NamesItself(queries[i]) /\ ~RepeatsDependency(queries[i]))
        => C28_CycleErrorOnlyOnCycle


(***************************************************************************)
(* The columns named by the column-level statements of a changed table.    *)
(***************************************************************************)
\* the column names of the sample tables, and the name the statement for a
\* table without structural detail uses
StatementColumnNames == {"id", "email", "age", "new_column"}

StatementTypes == {"INT", "TEXT"}

StatementDefaults == {"0", "''"}

\* the ADD COLUMN, DROP COLUMN and ALTER COLUMN statements on a table that name a column
ColumnStatementsNaming(table, name) ==
    {AlterTable(table) \o "ADD COLUMN " \o name \o " " \o t \o n \o d \o e :
        t \in StatementTypes, n \in {"", " NOT NULL"},
        d \in {""} \cup {" DEFAULT " \o v : v \in StatementDefaults},
        e \in {";", "; -- TODO: Implement proper column comparison"}}
    \cup {AlterTable(table) \o "DROP COLUMN " \o name \o ";"}
    \cup {AlterTable(table) \o "ALTER COLUMN " \o name \o " " \o change \o ";" :
            change \in {"TYPE " \o t : t \in StatementTypes}
                       \cup {"SET NOT NULL", "DROP NOT NULL", "DROP DEFAULT"}
                       \cup {"SET DEFAULT " \o v : v \in StatementDefaults}}

HasStructure(table) == table.kind = "TableASTObject"

\* C29: every column named in an ADD COLUMN, DROP COLUMN or ALTER COLUMN
\* action of diff_schemas is a column of the base or of the updated version of
\* the table, and a changed table without structural detail (a plain ASTObject)
\* gets no column-level statement.
C29_ColumnsAreKnown ==
    (pc = "diff_done" /\ raised = None /\ OneOnEachSide("base_table")) =>
        \A i \in 1..Len(result) : \A name \in StatementColumnNames :
            result[i].command \in ColumnStatementsNaming(updated[1], name) =>
                /\ name \in NamesIn(base[1]) \cup NamesIn(updated[1])
                /\ HasStructure(base[1]) /\ HasStructure(updated[1])

\* The same statement where both versions are TableASTObjects.
C29_StructuredTablesOnly ==
    (/\ Len(base) = 1 /\ Len(updated) = 1
     /\ HasStructure(base[1]) /\ HasStructure(updated[1])) => C29_ColumnsAreKnown


(***************************************************************************)
(* The drops of a diff result after sorting.                               *)
(***************************************************************************)
DropText(o) ==
    "DROP " \o (CASE o.query_type = "base_table" -> "TABLE"
                  [] o.query_type = "function" -> "FUNCTION"
                  [] OTHER -> "VIEW") \o " " \o QualifiedNameOf(o) \o ";"

\* the drop of o in a list carries o's name, schema and dependencies
CarriesFieldsOf(list, o) ==
    \A i \in 1..Len(list) :
        list[i].command = DropText(o) =>
            /\ list[i].object_name = o.object_name
            /\ list[i].schema = o.schema
            /\ list[i].dependencies = o.dependencies

DiffSorted == pc = "sort_done" /\ raised = None /\ base # <<>>

\* C30: a drop action of diff_schemas carries the objectName, the schema and
\* the dependencies of the dropped object, and when two base-only objects A and
\* B, with B depending on A, are both dropped, the sorted diff result holds the
\* drop of A before the drop of B.
C30_DropsSortedByDependency ==
    DiffSorted =>
        /\ \A a \in 1..Len(base) : OnlyInBase(base[a]) => CarriesFieldsOf(result, base[a])
        /\ \A a, b \in 1..Len(base) :
              (/\ a # b
               /\ OnlyInBase(base[a]) /\ OnlyInBase(base[b])
               /\ Names(base[b], base[a]) /\ ~Names(base[a], base[b]))
                 => \E i, j \in 1..Len(result) :
                       /\ i < j
                       /\ result[i].command = DropText(base[a])
                       /\ result[j].command = DropText(base[b])

\* The same statement where no two objects of the two schemas share a qualified name.
C30_DistinctNamesOnly ==
    ~SharesName(base \o updated) => C30_DropsSortedByDependency

\* two drops, the second one of an object that depends on the first one's
C30_Witness ==
    /\ DiffSorted
    /\ ~SharesName(base \o updated)
    /\ \E a, b \in 1..Len(base) :
          /\ a # b
          /\ OnlyInBase(base[a]) /\ OnlyInBase(base[b])
          /\ Names(base[b], base[a]) /\ ~Names(base[a], base[b])
====
